---- MODULE Spec2Model ----
(***************************************************************************)
(* State-machine model of the crypto-pulse-bot signal pipeline:            *)
(*   - analytics/signal_tracker.py  (SignalTracker: open set, polling)     *)
(*   - services/risk_manager.py     (RiskManager: admission, daily budget) *)
(*   - core/market_worker.py        (MarketWorker: add_signal + broadcast) *)
(*   - database.py                  (users and signals_history tables)     *)
(*   - core/advanced_signal_generator.py (candidates, levels, the cycle)   *)
(*   - analytics/multi_timeframe_analyzer.py (timeframes, consensus)       *)
(*   - services/signal_quality.py   (quality rating and its classes)       *)
(*                                                                         *)
(* Every asyncio task is a process whose position is a pc variable; one    *)
(* action is the code between two suspension points (await).               *)
(*                                                                         *)
(* Numbers.  Prices are integers.  Risk percentages (daily_risk_limit,     *)
(* daily_risk_used, signal_risk) are integers in units of 0.0001 %, so     *)
(* 5.0 % is 50000.  risk_per_trade is in units of 0.01 %, so 1.0 % is 100. *)
(* deposit is in USDT, position sizes in cents (2 decimals).  A stored     *)
(* value of 0 is the falsy value the code's "x or default" replaces.       *)
(* Time is kept relative: rem = risk_reset_time - now, in ticks, floored   *)
(* at -1 (elapsed); the code only ever compares risk_reset_time with now.  *)
(*                                                                         *)
(* Specifications.  SpecTracker: the start-up load, the polling loop and   *)
(* the worker's main loop as written.  SpecRisk, SpecRiskFair and          *)
(* SpecDelivery: send_to_one_user, check_user_limits, update_daily_risk    *)
(* and the reset sweep, with the recipients' part of broadcast_signal      *)
(* entered directly for every signal (as written, broadcast_signal raises  *)
(* a TypeError before it reaches its recipients, see BroadcastRaises).     *)
(* SpecGenerator: one run_analysis_cycle with its calls of                 *)
(* get_data_and_analyze.  SpecPair: one call of analyze_pair, with         *)
(* analyze_all_timeframes.  SpecConsensus: _calculate_consensus applied to *)
(* a dict of results.  In these, strengths are in hundredths, weights in   *)
(* tenths and a confidence is an exact fraction.                           *)
(***************************************************************************)
EXTENDS Integers, Sequences, FiniteSets, TLC

\* ------------------------------------------------------------------ bounds
MaxTrackerCandidates == 1
MaxRiskCandidates == 2
MaxDeliveryCandidates == 2
MaxInitRows == 1
NumUsers == 1
MaxRecipients == 3
\* the length of a batch of broadcast_signal, 20 in the source
BatchSize == 2
OneDay == 2

Symbols == {"BTC/USDT", "ETH/USDT"}
Sides == {"buy", "sell"}
Prices == {980, 1000, 1009, 1040}

VARIABLES
  active_signals,  \* SignalTracker.active_signals: list of signal dicts
  history,         \* signals_history table, row id = index
  users,           \* users table: id -> row
  loadPc, loadRows,            \* load_active_signals_from_db task
  wPc, wSig, nCand, nextObj,   \* MarketWorker.start main loop
  maxCand,         \* number of signals the analysis cycles return in a run
  uPc, uSnap, uCheck,          \* send_to_one_user coroutines; uCheck: its risk_check
  pPc, pSyms, pTickers, pCopy, pIdx, pOutcome, pPrice,  \* start_monitoring
  sPc, sSnap,                  \* reset_loop of start_daily_reset_scheduler
  delivered,       \* ghost: user -> obj ids of signals successfully sent
  closedObjs,      \* ghost: obj ids active_signals.remove has removed
  pFailed,         \* ghost: obj id whose close_signal_in_db ended the last tick
  market,          \* what the exchange data of the symbol yields per timeframe
  gPc, gSymbols, gLocal, gCand,  \* run_analysis_cycle / get_data_and_analyze
  gResults,        \* ghost: where get_data_and_analyze returned, per symbol
  gSignals,        \* run_analysis_cycle: its list `signals`
  aPc, aIdx, aResults,         \* analyze_pair / analyze_all_timeframes
  aRaised,         \* ghost: the timeframes whose analysis raised
  aConsensus,      \* the dict _calculate_consensus returned
  aSignal,         \* what analyze_pair returned
  kPc, kScore, kMax, kStrength,  \* a call of _calculate_strength
  qPc, qData, qRatio,          \* calls of rate_signal on one signal_data
  qNow,            \* datetime.now(timezone.utc): <<hour, instant of the hour>>
  qReports,        \* the reports the calls of rate_signal returned
  stat,            \* the signal_statistics row of one signal
  eNow             \* the clock EnhancedSignalTracker reads: calls so far

trackerVars == <<active_signals, history, loadPc, loadRows, pPc, pSyms,
                 pTickers, pCopy, pIdx, pOutcome, pPrice, closedObjs,
                 pFailed>>
workerVars == <<wPc, wSig, nCand, nextObj, maxCand>>
riskVars == <<users, uPc, uSnap, uCheck, sPc, sSnap, delivered>>
generatorVars == <<gPc, gSymbols, gLocal, gCand, gResults, gSignals>>
pairVars == <<aPc, aIdx, aResults, aRaised, aConsensus, aSignal>>
raterVars == <<kPc, kScore, kMax, kStrength, qPc, qData, qRatio, qNow,
               qReports>>
statVars == <<stat, eNow>>
analysisVars == <<market, generatorVars, pairVars, raterVars, statVars>>
vars == <<trackerVars, workerVars, riskVars, analysisVars>>


\* ------------------------------------------------------------- sequences
RECURSIVE SeqToSet(_)
SeqToSet(s) == IF s = <<>> THEN {} ELSE {Head(s)} \cup SeqToSet(Tail(s))

\* a remove that never happens
RemoveNothing(s, x) == s

RECURSIVE RemoveFirst(_, _)
\* list.remove(x): drops the first element equal to x
RemoveFirst(s, x) ==
  IF s = <<>> THEN <<>>
  ELSE IF Head(s) = x THEN Tail(s)
  ELSE <<Head(s)>> \o RemoveFirst(Tail(s), x)

SymbolsOf(s) == {s[i].symbol : i \in 1..Len(s)}
CountSymbol(s, sym) == Cardinality({i \in 1..Len(s) : s[i].symbol = sym})
ObjsOf(s) == {s[i].obj : i \in 1..Len(s)}

\* ------------------------------------------------------------ signals
\* The dict get_data_and_analyze returns (keys symbol, side, entry, tp1, sl;
\* no 'tp' and no 'user_id').  tp = 0 stands for "no 'tp' key".  obj is the
\* identity of the Python dict object.
Candidate(sym, side, obj) ==
  IF side = "buy"
  THEN [symbol |-> sym, side |-> "buy", entry |-> 1000, sl |-> 980,
        tp1 |-> 1040, tp |-> 0, obj |-> obj]
  ELSE [symbol |-> sym, side |-> "sell", entry |-> 1000, sl |-> 1009,
        tp1 |-> 980, tp |-> 0, obj |-> obj]

\* save_new_signal: the row inserted for a signal dict; user_id is
\* sig_data.get('user_id', 0) and the dict has no such key.
NewSignalRow(sig) ==
  [symbol |-> sig.symbol, side |-> sig.side, entry_price |-> sig.entry,
   tp1 |-> sig.tp1, sl |-> sig.sl, status |-> "OPEN", exit_price |-> 0,
   profit_pct |-> 0, user_id |-> 0]

\* load_active_signals_from_db: the dict built from an OPEN row (keys symbol,
\* side, entry, tp, sl; tp1 = 0 stands for "no 'tp1' key").
LoadedSignal(row, obj) ==
  [symbol |-> row.symbol, side |-> row.side, entry |-> row.entry_price,
   sl |-> row.sl, tp1 |-> 0, tp |-> row.tp1, obj |-> obj]

OpenRowIds(h) == {i \in 1..Len(h) : h[i].status = "OPEN"}
OpenRowIdsOf(h, sym) == {i \in OpenRowIds(h) : h[i].symbol = sym}

RECURSIVE OpenRows(_)
\* select(SignalHistory).where(status == "OPEN"), in row order
OpenRows(h) ==
  IF h = <<>> THEN <<>>
  ELSE IF Head(h).status = "OPEN" THEN <<Head(h)>> \o OpenRows(Tail(h))
  ELSE OpenRows(Tail(h))

\* The TP / SL tests of start_monitoring (if ... elif ...), "NONE" when
\* neither fires and is_closed stays False.
OutcomeStrictTP(sig, price) ==
  IF (sig.side = "buy" /\ price > sig.tp) \/ (sig.side = "sell" /\ price < sig.tp)
  THEN "TP"
  ELSE IF (sig.side = "buy" /\ price <= sig.sl) \/ (sig.side = "sell" /\ price >= sig.sl)
  THEN "SL"
  ELSE "NONE"

Outcome(sig, price) ==
  IF (sig.side = "buy" /\ price >= sig.tp) \/ (sig.side = "sell" /\ price <= sig.tp)
  THEN "TP"
  ELSE IF (sig.side = "buy" /\ price <= sig.sl) \/ (sig.side = "sell" /\ price >= sig.sl)
  THEN "SL"
  ELSE "NONE"

\* close_signal_in_db: scalar_one_or_none() raises MultipleResultsFound when
\* the symbol has more than one OPEN row.
CloseRaises(h, sym) == Cardinality(OpenRowIdsOf(h, sym)) > 1

\* close_signal_in_db: ((exit_p - entry) / entry) * 100 for side "buy",
\* ((entry - exit_p) / entry) * 100 otherwise, in hundredths of a percent
ProfitPct(row, exit_p) ==
  IF row.side = "buy"
  THEN ((exit_p - row.entry_price) * 10000) \div row.entry_price
  ELSE ((row.entry_price - exit_p) * 10000) \div row.entry_price

\* close_signal_in_db when it does not raise: the symbol's OPEN row, if any,
\* gets exit_price, status and profit_pct (0 stands for the NULL of a row
\* that was never closed).
CloseSignalInDb(h, sym, price, status) ==
  [i \in 1..Len(h) |->
     IF i \in OpenRowIdsOf(h, sym)
     THEN [h[i] EXCEPT !.status = status, !.exit_price = price,
                       !.profit_pct = ProfitPct(h[i], price)]
     ELSE h[i]]

\* --------------------------------------------- load_active_signals_from_db
\* await session.execute(select ... status == "OPEN")
LoadSelect ==
  /\ loadPc = "select"
  /\ loadRows' = OpenRows(history)
  /\ loadPc' = "append"
  /\ UNCHANGED <<active_signals, history, pPc, pSyms, pTickers, pCopy, pIdx,
                 pOutcome, pPrice, closedObjs, pFailed>>
  /\ UNCHANGED <<workerVars, riskVars, analysisVars>>

\* for sig in signals: self.active_signals.append({...}) - no duplicate test
LoadAppend ==
  /\ loadPc = "append"
  /\ active_signals' = active_signals \o
       [i \in 1..Len(loadRows) |-> LoadedSignal(loadRows[i], nextObj + i - 1)]
  /\ nextObj' = nextObj + Len(loadRows)
  /\ loadPc' = "done"
  /\ loadRows' = <<>>
  /\ UNCHANGED <<history, pPc, pSyms, pTickers, pCopy, pIdx, pOutcome, pPrice,
                 closedObjs, pFailed>>
  /\ UNCHANGED <<wPc, wSig, nCand, maxCand, riskVars, analysisVars>>

\* ------------------------------------------------------- start_monitoring
pollFrame == <<loadPc, loadRows, workerVars, riskVars, analysisVars>>
pollKeep == <<active_signals, history, closedObjs>>

\* the loop's locals once the tick is over (await asyncio.sleep)
PollSleepAfter(failed) ==
  /\ pFailed' = failed
  /\ pPc' = "sleep"
  /\ pSyms' = {}
  /\ pTickers' = <<>>
  /\ pCopy' = <<>>
  /\ pIdx' = 1
  /\ pOutcome' = "NONE"
  /\ pPrice' = 0

PollSleep == PollSleepAfter(0)

\* if not self.active_signals: sleep; else call fetch_tickers with the
\* symbols open at the time of the call.
PollFetchStart ==
  /\ pPc = "sleep"
  /\ active_signals # <<>>
  /\ pSyms' = SymbolsOf(active_signals)
  /\ pPc' = "fetching"
  /\ UNCHANGED <<pTickers, pCopy, pIdx, pOutcome, pPrice, pFailed>>
  /\ UNCHANGED <<pollKeep, pollFrame>>

\* fetch_tickers returns; the loop iterates a copy of the list taken now.
PollFetchReturn ==
  /\ pPc = "fetching"
  /\ \E t \in [pSyms -> Prices] : pTickers' = t
  /\ pCopy' = active_signals
  /\ pIdx' = 1
  /\ pPc' = "loop"
  /\ pFailed' = 0
  /\ UNCHANGED <<pSyms, pOutcome, pPrice>>
  /\ UNCHANGED <<pollKeep, pollFrame>>

\* One iteration of the for loop up to the first await: the 'tp' fallback
\* (every dict of the list has 'tp': add_signal and the loader set it), the
\* ticker lookup and the TP / SL tests.
PollEval ==
  /\ pPc = "loop"
  /\ pIdx <= Len(pCopy)
  /\ LET raw == pCopy[pIdx]
         sig == IF raw.tp = 0 THEN [raw EXCEPT !.tp = raw.tp1] ELSE raw
     IN IF sig.tp = 0
        THEN \* neither 'tp' nor 'tp1': logged, continue
             /\ pIdx' = pIdx + 1
             /\ UNCHANGED <<pPc, pSyms, pTickers, pCopy, pOutcome, pPrice,
                            pFailed>>
        ELSE IF sig.symbol \notin DOMAIN pTickers
        THEN \* tickers[symbol] raises KeyError: the tick ends in the except
             PollSleep
        ELSE LET price == pTickers[sig.symbol]
                 out == Outcome(sig, price)
             IN IF out = "NONE"
                THEN /\ pIdx' = pIdx + 1
                     /\ UNCHANGED <<pPc, pSyms, pTickers, pCopy, pOutcome,
                                    pPrice, pFailed>>
                ELSE /\ pPc' = "close_db"
                     /\ pOutcome' = out
                     /\ pPrice' = price
                     /\ UNCHANGED <<pIdx, pSyms, pTickers, pCopy, pFailed>>
  /\ UNCHANGED <<pollKeep, pollFrame>>

\* await close_signal_in_db(symbol, current_price, "TP" | "SL") returns
PollCloseDbOk ==
  /\ pPc = "close_db"
  /\ ~CloseRaises(history, pCopy[pIdx].symbol)
  /\ history' = CloseSignalInDb(history, pCopy[pIdx].symbol, pPrice, pOutcome)
  /\ pPc' = "notify"
  /\ UNCHANGED <<active_signals, closedObjs, pFailed, pSyms, pTickers,
                 pCopy, pIdx, pOutcome, pPrice>>
  /\ UNCHANGED pollFrame

\* a variant of the except clause that gives up the signal
DropOnFailure(list, sig) == RemoveFirst(list, sig)

\* except Exception as e: logging.error(...) - the list is left as it is
KeepOnFailure(list, sig) == list

\* await close_signal_in_db raises (MultipleResultsFound, or the store
\* fails): the except clause ends the tick, the signal stays in the list.
PollCloseDbFail ==
  /\ pPc = "close_db"
  /\ PollSleepAfter(pCopy[pIdx].obj)
  /\ active_signals' = KeepOnFailure(active_signals, pCopy[pIdx])
  /\ UNCHANGED <<history, closedObjs, pollFrame>>

\* await notify_all_premium returns; self.active_signals.remove(sig)
PollNotifyRemove ==
  /\ pPc = "notify"
  /\ active_signals' = RemoveFirst(active_signals, pCopy[pIdx])
  /\ closedObjs' = closedObjs \cup {pCopy[pIdx].obj}
  /\ pIdx' = pIdx + 1
  /\ pPc' = "loop"
  /\ pOutcome' = "NONE"
  /\ pPrice' = 0
  /\ UNCHANGED <<history, pFailed, pSyms, pTickers, pCopy>>
  /\ UNCHANGED pollFrame

\* notify_all_premium raises (its select of the premium users fails): the
\* except clause ends the tick before remove.
PollNotifyFail ==
  /\ pPc = "notify"
  /\ PollSleep
  /\ UNCHANGED <<pollKeep, pollFrame>>

\* the for loop is exhausted: await asyncio.sleep(20)
PollEndTick ==
  /\ pPc = "loop"
  /\ pIdx > Len(pCopy)
  /\ PollSleep
  /\ UNCHANGED <<pollKeep, pollFrame>>

\* ------------------------------------------------------------ risk rules
Abs(x) == IF x < 0 THEN 0 - x ELSE x

\* round(n / d) to the nearest integer (ties up; Python rounds the binary
\* float, the inputs used here have no ties)
RoundDiv(n, d) == LET q == n \div d
                      r == n % d
                  IN IF 2 * r >= d THEN q + 1 ELSE q

\* send_to_one_user: abs(entry - sl) / entry * 100, in units of 0.0001 %
SignalRiskPct(sig) == (Abs(sig.entry - sig.sl) * 1000000) \div sig.entry

\* user.daily_risk_limit or 5.0
EffLimit(row) ==
  IF row.daily_risk_limit = 0 THEN 50000 ELSE row.daily_risk_limit

\* user.max_open_positions or 5
EffMaxPositions(row) ==
  IF row.max_open_positions = 0 THEN 5 ELSE row.max_open_positions

\* user.deposit or 1000
EffDepositNoDefault(row) == row.deposit

EffDeposit(row) == IF row.deposit = 0 THEN 1000 ELSE row.deposit

\* user.risk_per_trade or 1.0, in units of 0.01 %
EffRiskPerTrade(row) ==
  IF row.risk_per_trade = 0 THEN 100 ELSE row.risk_per_trade

\* user.risk_reset_time and user.risk_reset_time < current_time
ResetDue(row) == row.has_reset /\ row.rem < 0

\* the lazy reset applied to the session's user object
ResetRowNoAdvance(row) == [row EXCEPT !.daily_risk_used = 0]

ResetRow(row) ==
  [row EXCEPT !.daily_risk_used = 0, !.has_reset = TRUE, !.rem = OneDay]

\* user.daily_risk_used + signal_risk > daily_risk_limit
DailyLimitIgnoresUsed(row, risk) == risk > EffLimit(row)

DailyLimitHitOrEqual(row, risk) == row.daily_risk_used + risk >= EffLimit(row)

DailyLimitHit(row, risk) == row.daily_risk_used + risk > EffLimit(row)

\* rows of signals_history with user_id == uid and status in (OPEN, PARTIAL)
OpenCount(h, uid) ==
  Cardinality({i \in 1..Len(h) :
                 h[i].user_id = uid /\ h[i].status \in {"OPEN", "PARTIAL"}})

\* open_count >= max_positions
PositionCapHit(h, uid, row) == OpenCount(h, uid) >= EffMaxPositions(row)

\* calculate_position_size: round((deposit * risk_per_trade / 100) /
\* (signal_risk / 100), 2), in cents
CalculatePositionSize(deposit, signal_risk, risk_per_trade) ==
  RoundDiv(deposit * risk_per_trade * 10000, signal_risk)

\* risk_amount = signal_risk_pct * (user_obj.risk_per_trade / 100)
RiskAmount(sig, row) == (SignalRiskPct(sig) * row.risk_per_trade) \div 10000

\* one tick of wall-clock time seen from a stored risk_reset_time
AgeRow(row) ==
  IF row.has_reset /\ row.rem > -1 THEN [row EXCEPT !.rem = row.rem - 1] ELSE row

\* the locals of a coroutine that is not running
NoRow == [daily_risk_limit |-> 0, daily_risk_used |-> 0,
          max_open_positions |-> 0, has_reset |-> FALSE, rem |-> 0,
          deposit |-> 0, risk_per_trade |-> 0, pairs |-> {}]
NoCheck == [phase |-> "none", risk |-> 0, size |-> 0, open_count |-> 0,
            row |-> NoRow]
NoSnap == [row |-> NoRow, write_used |-> FALSE]
NoSweep == [row |-> NoRow, dirty |-> FALSE, write_used |-> FALSE]
NoSignal == [symbol |-> "", side |-> "", entry |-> 0, sl |-> 0, tp1 |-> 0,
             tp |-> 0, obj |-> 0]

\* ---------------------------------------------------- MarketWorker.start
workerFrame == <<loadPc, loadRows, pPc, pSyms, pTickers, pCopy, pIdx, pOutcome,
                 pPrice, closedObjs, pFailed, users, sPc, sSnap, delivered,
                 analysisVars>>

\* for s in new_sigs: the next signal run_analysis_cycle returned, and
\* add_signal up to its await: the duplicate test and the 'tp' fallback
WorkerNewSignal ==
  /\ wPc = "idle"
  /\ nCand < maxCand
  /\ \E sym \in Symbols, side \in Sides :
       LET s == Candidate(sym, side, nextObj)
       IN IF s.symbol \in SymbolsOf(active_signals)
          THEN /\ wPc' = "broadcast"
               /\ wSig' = s
          ELSE /\ wPc' = "add_save"
               /\ wSig' = IF s.tp = 0 /\ s.tp1 # 0
                          THEN [s EXCEPT !.tp = s.tp1] ELSE s
  /\ nextObj' = nextObj + 1
  /\ nCand' = nCand + 1
  /\ UNCHANGED <<active_signals, history, maxCand, uPc, uSnap, uCheck>>
  /\ UNCHANGED workerFrame

\* await save_new_signal(signal)
AddSave ==
  /\ wPc = "add_save"
  /\ history' = Append(history, NewSignalRow(wSig))
  /\ wPc' = "add_append"
  /\ UNCHANGED <<active_signals, wSig, nCand, nextObj, maxCand, uPc, uSnap, uCheck>>
  /\ UNCHANGED workerFrame

\* self.active_signals.append(signal)
AddAppend ==
  /\ wPc = "add_append"
  /\ active_signals' = Append(active_signals, wSig)
  /\ wPc' = "broadcast"
  /\ UNCHANGED <<history, wSig, nCand, nextObj, maxCand, uPc, uSnap, uCheck>>
  /\ UNCHANGED workerFrame

\* broadcast_signal up to its recipients: building signal_data evaluates
\* signal.get('status', 'MEDIUM', 'HIGH', 'ULTRA'), a TypeError for every
\* dict (dict.get takes at most two arguments).  The exception leaves
\* broadcast_signal, is caught at the cycle boundary of start and, after the
\* cooldown, the next cycle begins: the signal stays tracked, the rest of
\* new_sigs is dropped, no recipient is reached.
BroadcastRaises ==
  /\ wPc = "broadcast"
  /\ wPc' = "cooldown"
  /\ wSig' = NoSignal
  /\ UNCHANGED <<active_signals, history, nCand, nextObj, maxCand, uPc, uSnap, uCheck>>
  /\ UNCHANGED workerFrame

\* the select of the premium users' pairs or run_analysis_cycle raises
CycleRaises ==
  /\ wPc = "idle"
  /\ wPc' = "cooldown"
  /\ UNCHANGED <<active_signals, history, wSig, nCand, nextObj, maxCand, uPc,
                 uSnap, uCheck>>
  /\ UNCHANGED workerFrame

\* await save_new_signal(signal) raises: no row, add_signal does not append
AddSaveRaises ==
  /\ wPc = "add_save"
  /\ wPc' = "cooldown"
  /\ wSig' = NoSignal
  /\ UNCHANGED <<active_signals, history, nCand, nextObj, maxCand, uPc, uSnap,
                 uCheck>>
  /\ UNCHANGED workerFrame

\* a variant of the except clause that leaves the loop after its sleep
WorkerStops ==
  /\ wPc = "cooldown"
  /\ wPc' = "stopped"
  /\ UNCHANGED <<active_signals, history, wSig, nCand, nextObj, maxCand, uPc,
                 uSnap, uCheck>>
  /\ UNCHANGED workerFrame

\* except Exception: ... await asyncio.sleep(60); continue
WorkerCooldown ==
  /\ wPc = "cooldown"
  /\ wPc' = "idle"
  /\ UNCHANGED <<active_signals, history, wSig, nCand, nextObj, maxCand, uPc,
                 uSnap, uCheck>>
  /\ UNCHANGED workerFrame

\* the batch of `users` a recipient is gathered in: the list is cut into
\* runs of BatchSize tasks
BatchOf(u) == (u - 1) \div BatchSize

\* the recipients whose send_to_one_user has not been started yet
Queued == {u \in DOMAIN users : uPc[u] = "queued"}

\* the next run of tasks handed to asyncio.gather
NextBatch == {u \in Queued : \A v \in Queued : BatchOf(u) <= BatchOf(v)}

\* send_to_one_user up to its first await: the pair filter returns False at
\* once
StartPc(u) == IF wSig.symbol \in users[u].pairs THEN "check_get" ELSE "done"

\* the recipients' part of broadcast_signal, entered on its own: select the
\* premium users and gather the first batch of send_to_one_user coroutines
BroadcastStart ==
  /\ wPc = "broadcast"
  /\ uPc' = [u \in DOMAIN users |->
               IF BatchOf(u) = 0 THEN StartPc(u) ELSE "queued"]
  /\ wPc' = "gather"
  /\ UNCHANGED <<active_signals, history, wSig, nCand, nextObj, maxCand, uSnap, uCheck>>
  /\ UNCHANGED workerFrame

\* asyncio.gather returned: the next batch is gathered, or broadcast_signal
\* returns to the main loop
GatherDone ==
  /\ wPc = "gather"
  /\ \A u \in DOMAIN users : uPc[u] \in {"done", "queued"}
  /\ IF Queued # {}
     THEN /\ uPc' = [u \in DOMAIN users |->
                      IF u \in NextBatch THEN StartPc(u) ELSE uPc[u]]
          /\ UNCHANGED <<uSnap, uCheck, wPc, wSig>>
     ELSE /\ uPc' = [u \in DOMAIN users |-> "idle"]
          /\ uSnap' = [u \in DOMAIN users |-> NoSnap]
          /\ uCheck' = [u \in DOMAIN users |-> NoCheck]
          /\ wPc' = "idle"
          /\ wSig' = NoSignal
  /\ UNCHANGED <<active_signals, history, nCand, nextObj, maxCand>>
  /\ UNCHANGED workerFrame

\* asyncio.gather(*tasks) re-raises the exception of a task: it leaves
\* broadcast_signal and is caught at the cycle boundary of start.  The other
\* tasks of the batch run on with the signal; the users of the later batches
\* are never started.
GatherRaises ==
  /\ wPc = "gather"
  /\ \E u \in DOMAIN users : uPc[u] = "raised"
  /\ wPc' = "cooldown"
  /\ UNCHANGED <<active_signals, history, wSig, nCand, nextObj, maxCand, uPc,
                 uSnap, uCheck>>
  /\ UNCHANGED workerFrame

\* ------------------------------------------- send_to_one_user (per user)
userFrame == <<trackerVars, workerVars, sPc, sSnap, analysisVars>>

\* the check's verdict on the daily limit for the session's user object
DailyVerdict(u, row, seen) ==
  IF DailyLimitHit(row, SignalRiskPct(wSig))
  THEN /\ uPc' = [uPc EXCEPT ![u] = "done"]
       /\ uCheck' = [uCheck EXCEPT ![u] =
            [phase |-> "rejected_daily", risk |-> SignalRiskPct(wSig),
             size |-> 0, open_count |-> 0, row |-> seen]]
  ELSE /\ uPc' = [uPc EXCEPT ![u] = "check_count"]
       /\ uCheck' = [uCheck EXCEPT ![u] =
            [phase |-> "daily_ok", risk |-> SignalRiskPct(wSig),
             size |-> 0, open_count |-> 0, row |-> seen]]

\* check_user_limits: await session.get(User, user_id); without a due reset
\* the daily-limit test follows at once.
CheckGet(u) ==
  /\ uPc[u] = "check_get"
  /\ IF ResetDue(users[u])
     THEN /\ uSnap' = [uSnap EXCEPT ![u] =
               [row |-> ResetRow(users[u]),
                write_used |-> users[u].daily_risk_used # 0]]
          /\ uPc' = [uPc EXCEPT ![u] = "check_commit"]
          /\ uCheck' = [uCheck EXCEPT ![u] =
               [phase |-> "resetting", risk |-> SignalRiskPct(wSig),
                size |-> 0, open_count |-> 0, row |-> users[u]]]
     ELSE /\ uSnap' = [uSnap EXCEPT ![u] =
               [row |-> users[u], write_used |-> FALSE]]
          /\ DailyVerdict(u, users[u], users[u])
  /\ UNCHANGED <<users, delivered>>
  /\ UNCHANGED userFrame

\* check_user_limits: await session.commit() of the lazy reset (UPDATE of
\* the changed columns), then the daily-limit test on the reset object.
CheckCommit(u) ==
  /\ uPc[u] = "check_commit"
  /\ users' = [users EXCEPT ![u] =
       [@ EXCEPT !.daily_risk_used =
                   IF uSnap[u].write_used THEN 0 ELSE @,
                 !.has_reset = TRUE,
                 !.rem = uSnap[u].row.rem]]
  /\ DailyVerdict(u, uSnap[u].row, uCheck[u].row)
  /\ UNCHANGED <<uSnap, delivered>>
  /\ UNCHANGED userFrame

\* check_user_limits: await session.execute(open_positions_query), the cap
\* test and calculate_position_size.
CheckCount(u) ==
  /\ uPc[u] = "check_count"
  /\ IF PositionCapHit(history, u, uSnap[u].row)
     THEN /\ uPc' = [uPc EXCEPT ![u] = "done"]
          /\ uCheck' = [uCheck EXCEPT ![u] =
               [@ EXCEPT !.phase = "rejected_positions",
                         !.open_count = OpenCount(history, u)]]
     ELSE /\ uPc' = [uPc EXCEPT ![u] = "send"]
          /\ uCheck' = [uCheck EXCEPT ![u] =
               [@ EXCEPT !.phase = "allowed",
                         !.open_count = OpenCount(history, u),
                         !.size = CalculatePositionSize(
                                    EffDeposit(uSnap[u].row),
                                    SignalRiskPct(wSig),
                                    EffRiskPerTrade(uSnap[u].row))]]
  /\ UNCHANGED <<users, uSnap, delivered>>
  /\ UNCHANGED userFrame

\* check_user_limits raises in one of its awaits (session.get, commit,
\* execute): send_to_one_user awaits it outside its try block and raises too
CheckRaises(u) ==
  /\ uPc[u] \in {"check_get", "check_commit", "check_count"}
  /\ uPc' = [uPc EXCEPT ![u] = "raised"]
  /\ UNCHANGED <<users, uSnap, uCheck, delivered>>
  /\ UNCHANGED userFrame

\* await bot.send_photo / send_message returns
SendOk(u) ==
  /\ uPc[u] = "send"
  /\ delivered' = [delivered EXCEPT ![u] = @ \cup {wSig.obj}]
  /\ uPc' = [uPc EXCEPT ![u] = "update_get"]
  /\ UNCHANGED <<users, uSnap, uCheck>>
  /\ UNCHANGED userFrame

\* the send raises: logged, send_to_one_user returns False
SendFailCharged(u) ==
  /\ uPc[u] = "send"
  /\ uPc' = [uPc EXCEPT ![u] = "update_get"]
  /\ UNCHANGED <<users, uSnap, uCheck, delivered>>
  /\ UNCHANGED userFrame

SendFail(u) ==
  /\ uPc[u] = "send"
  /\ uPc' = [uPc EXCEPT ![u] = "done"]
  /\ UNCHANGED <<users, uSnap, uCheck, delivered>>
  /\ UNCHANGED userFrame

\* update_daily_risk: await session.get(User, user_id) and the addition
UpdateGet(u) ==
  /\ uPc[u] = "update_get"
  /\ uSnap' = [uSnap EXCEPT ![u] =
       [row |-> [users[u] EXCEPT !.daily_risk_used =
                   @ + RiskAmount(wSig, users[u])],
        write_used |-> RiskAmount(wSig, users[u]) # 0]]
  /\ uPc' = [uPc EXCEPT ![u] = "update_commit"]
  /\ UNCHANGED <<users, uCheck, delivered>>
  /\ UNCHANGED userFrame

\* update_daily_risk: await session.commit()
UpdateCommit(u) ==
  /\ uPc[u] = "update_commit"
  /\ users' = [users EXCEPT ![u] =
       [@ EXCEPT !.daily_risk_used =
                   IF uSnap[u].write_used
                   THEN uSnap[u].row.daily_risk_used ELSE @]]
  /\ uPc' = [uPc EXCEPT ![u] = "done"]
  /\ UNCHANGED <<uSnap, uCheck, delivered>>
  /\ UNCHANGED userFrame

\* ------------------------------------- start_daily_reset_scheduler
sweepFrame == <<trackerVars, workerVars, uPc, uSnap, uCheck, delivered,
                analysisVars>>

\* reset_loop: after the sleep, select(User) and the loop over the rows
SweepSelect ==
  /\ sPc = "sleep"
  /\ sSnap' = [u \in DOMAIN users |->
       IF ResetDue(users[u])
       THEN [row |-> ResetRow(users[u]), dirty |-> TRUE,
             write_used |-> users[u].daily_risk_used # 0]
       ELSE [row |-> users[u], dirty |-> FALSE, write_used |-> FALSE]]
  /\ sPc' = "commit"
  /\ UNCHANGED users
  /\ UNCHANGED sweepFrame

\* reset_loop: await session.commit() writes the changed columns
SweepCommit ==
  /\ sPc = "commit"
  /\ users' = [u \in DOMAIN users |->
       IF sSnap[u].dirty
       THEN [users[u] EXCEPT !.daily_risk_used =
                               IF sSnap[u].write_used THEN 0 ELSE @,
                             !.has_reset = TRUE,
                             !.rem = sSnap[u].row.rem]
       ELSE users[u]]
  /\ sPc' = "sleep"
  /\ sSnap' = [u \in DOMAIN users |-> NoSweep]
  /\ UNCHANGED sweepFrame

\* ------------------------------------------------------------- clock
\* wall-clock time advances by one tick (half a day): every stored
\* risk_reset_time, in the table and in the open sessions, is one tick
\* nearer (or elapsed).  A session's get-to-commit lasts far less than a
\* tick, so no tick falls inside one.
Tick ==
  /\ sPc # "commit"
  /\ \A u \in DOMAIN users : uPc[u] \notin {"check_commit", "update_commit"}
  /\ users' = [u \in DOMAIN users |-> AgeRow(users[u])]
  /\ uSnap' = [u \in DOMAIN users |-> [uSnap[u] EXCEPT !.row = AgeRow(@)]]
  /\ sSnap' = [u \in DOMAIN users |-> [sSnap[u] EXCEPT !.row = AgeRow(@)]]
  /\ <<users', uSnap', sSnap'>> # <<users, uSnap, sSnap>>
  /\ UNCHANGED <<trackerVars, workerVars, uPc, uCheck, sPc, delivered,
                 analysisVars>>

\* ------------------------------------------- MultiTimeframeAnalyzer
\* Strengths are in hundredths (0.3 = 30), weights in tenths (0.2 = 2); a
\* confidence is kept exactly, as the fraction num / den.
Timeframes == <<"15m", "1h", "4h">>

TimeframeSet == {Timeframes[i] : i \in DOMAIN Timeframes}

\* self.weights
Weight(tf) ==
  CASE tf = "15m" -> 2
    [] tf = "1h" -> 3
    [] tf = "4h" -> 5

\* what _analyze_timeframe returns; 'trend', 'price' and 'rsi' of a result are
\* read by nothing and are left out
TimeframeResult(signal, strength, ema_trend) ==
  [signal |-> signal, strength |-> strength, ema_trend |-> ema_trend]

\* the results _determine_signal and _get_ema_trend produce: one trigger
\* (0.3 or 0.4), or two (0.35); 'none' carries strength 0
TfOutcomes ==
  { TimeframeResult("BUY", 30, "bullish"),
    TimeframeResult("BUY", 40, "slightly_bullish"),
    TimeframeResult("BUY", 35, "bullish"),
    TimeframeResult("SELL", 30, "bearish"),
    TimeframeResult("SELL", 40, "slightly_bearish"),
    TimeframeResult("none", 0, "bullish"),
    TimeframeResult("none", 0, "bearish") }

\* the result the except branch stores: it has no 'ema_trend' key
DegradedResult == TimeframeResult("none", 0, "absent")

\* a timeframe not analysed yet: no key in `results`
NoResult == TimeframeResult("unset", 0, "absent")

Markets == [TimeframeSet -> TfOutcomes]

RECURSIVE SumOver(_, _)
SumOver(f, S) ==
  IF S = {} THEN 0
  ELSE LET x == CHOOSE y \in S : TRUE IN f[x] + SumOver(f, S \ {x})

\* the timeframes the first loop appends to `signals`
Directional(results) ==
  {tf \in DOMAIN results : results[tf].signal \notin {"none", "unset"}}

\* vote_count[side], in tenths
VoteCount(results, side) ==
  SumOver([tf \in DOMAIN results |-> Weight(tf)],
          {tf \in Directional(results) : results[tf].signal = side})

\* total_weight, in tenths
TotalWeight(results) ==
  SumOver([tf \in DOMAIN results |-> Weight(tf)], Directional(results))

\* weighted_strength, in thousandths
WeightedStrength(results) ==
  SumOver([tf \in DOMAIN results |-> results[tf].strength * Weight(tf)],
          Directional(results))

Fraction(num, den) == [num |-> num, den |-> den]

\* a variant that skips line 257
ShareOnly(votes, total, ws) == Fraction(votes, total)

\* confidence = (share + weighted_strength) / 2 with share = votes / total
HalfSum(votes, total, ws) == Fraction(votes * 1000 + ws * total, 2000 * total)

\* a variant whose early return reports the weighted strength
NoSignalsKeepsStrength(results) ==
  [final_signal |-> "none",
   confidence |-> Fraction(SumOver([tf \in DOMAIN results |->
                     results[tf].strength * Weight(tf)], DOMAIN results), 2000)]

\* if not signals: return {'final_signal': 'none', 'confidence': 0}
NoSignals(results) == [final_signal |-> "none", confidence |-> Fraction(0, 1)]

\* _calculate_consensus
CalculateConsensus(results) ==
  LET buy == VoteCount(results, "BUY")
      sell == VoteCount(results, "SELL")
      total == TotalWeight(results)
      ws == WeightedStrength(results)
  IN  IF Directional(results) = {} THEN NoSignals(results)
      ELSE IF buy > sell
        THEN [final_signal |-> "BUY", confidence |-> HalfSum(buy, total, ws)]
      ELSE IF sell > buy
        THEN [final_signal |-> "SELL", confidence |-> HalfSum(sell, total, ws)]
      ELSE [final_signal |-> "none", confidence |-> HalfSum(0, total, ws)]

NoConsensus == [final_signal |-> "unset", confidence |-> Fraction(0, 1)]

\* mtf_result['confidence'] < 0.6
BelowMinConfidence(c) == c.num * 10 < 6 * c.den

\* the two early returns of analyze_pair
ConsensusGatePasses(consensus) ==
  /\ consensus.final_signal \in {"BUY", "SELL"}
  /\ ~BelowMinConfidence(consensus.confidence)

\* ------------------------------------------- EnhancedSignalQualityRater
\* A signal_data dict is a record; a key the dict lacks holds what the
\* rater's .get() yields for it: "" for 'signal_type', 0 for 'rsi', 'atr' and
\* the three price keys; has_timeframe_analysis tells whether the key
\* 'timeframe_analysis' is in the dict.
\* historical_data is the ratio current volume / mean of the last 20 volumes
\* in hundredths, or -1 when fewer than 20 volumes (or none) were passed.
CountOf(results, field, value) ==
  Cardinality({tf \in DOMAIN results : results[tf][field] = value})

\* _rate_mtf_consensus
RateMtfConsensus(data) ==
  IF ~data.has_timeframe_analysis THEN 0
  ELSE LET res == data.timeframe_analysis
           n == Cardinality(Directional(res))
           buys == CountOf(res, "signal", "BUY")
           sells == CountOf(res, "signal", "SELL")
       IN  IF n < 2 THEN 0
           ELSE IF buys = n \/ sells = n THEN 2
           ELSE IF buys - sells >= 2 \/ sells - buys >= 2 THEN 1
           ELSE 0

\* _rate_trend_strength
RateTrendStrength(data) ==
  IF ~data.has_timeframe_analysis THEN 0
  ELSE LET res == data.timeframe_analysis
           trends == {tf \in DOMAIN res : res[tf].ema_trend # "absent"}
           bullish == CountOf(res, "ema_trend", "bullish")
           bearish == CountOf(res, "ema_trend", "bearish")
       IN  IF Cardinality(trends) < 2 THEN 0
           ELSE IF data.signal_type = "BUY" /\ bullish >= 2 THEN 2
           ELSE IF data.signal_type = "SELL" /\ bearish >= 2 THEN 2
           ELSE IF \/ data.signal_type = "BUY" /\ bullish = 1
                   \/ data.signal_type = "SELL" /\ bearish = 1 THEN 1
           ELSE 0

\* _rate_volume
RateVolume(ratio) ==
  IF ratio < 0 THEN 0
  ELSE IF ratio > 200 THEN 2
  ELSE IF ratio > 150 THEN 1
  ELSE 0

\* _rate_rsi
RateRsi(data) ==
  IF data.rsi = 0 THEN 0
  ELSE IF data.signal_type = "BUY" THEN (IF data.rsi < 30 THEN 1 ELSE 0)
  ELSE IF data.signal_type = "SELL" THEN (IF data.rsi > 70 THEN 1 ELSE 0)
  ELSE 0

Distance(a, b) == IF a >= b THEN a - b ELSE b - a

\* _rate_risk_reward
RateRiskReward(data) ==
  IF data.entry_price = 0 \/ data.stop_loss = 0 \/ data.take_profit_1 = 0
    THEN 0
  ELSE LET risk == Distance(data.entry_price, data.stop_loss)
           reward == Distance(data.take_profit_1, data.entry_price)
       IN  IF risk = 0 THEN 0
           ELSE IF reward >= 2 * risk THEN 1
           ELSE 0

\* _rate_volatility: 1.0 <= atr / price * 100 <= 3.0
RateVolatility(data) ==
  IF data.atr = 0 \/ data.entry_price = 0 THEN 0
  ELSE IF /\ data.entry_price <= 100 * data.atr
          /\ 100 * data.atr <= 3 * data.entry_price THEN 1
  ELSE 0

\* _rate_time_of_day
RateTimeOfDay(hour) ==
  IF 8 <= hour /\ hour < 16 THEN 1
  ELSE IF 13 <= hour /\ hour < 21 THEN 1
  ELSE 0

\* the maximum the comments of SignalStrength count with ("11-12")
DocumentedMax == 12

\* max_possible after the ten factors
MaxScore == 2 + 2 + 2 + 1 + 1 + 1 + 1 + 1 + 1 + 1

\* total_score: _check_divergence, _check_support_resistance and
\* _rate_news_background always add 0
TotalScore(data, ratio, hour) ==
  RateMtfConsensus(data) + RateTrendStrength(data) + RateVolume(ratio)
    + RateRsi(data) + RateRiskReward(data) + RateVolatility(data)
    + RateTimeOfDay(hour)

\* a variant of _calculate_strength whose boundaries are open at the lower end
CalculateStrengthOpen(score, max_score) ==
  IF max_score <= 0 THEN "WEAK"
  ELSE IF score * 100 > 90 * max_score THEN "STRONG"
  ELSE IF score * 100 > 75 * max_score THEN "HIGH"
  ELSE IF score * 100 > 60 * max_score THEN "MEDIUM"
  ELSE IF score * 100 > 40 * max_score THEN "LOW"
  ELSE "WEAK"

\* _calculate_strength: percentage = score / max_score * 100
CalculateStrength(score, max_score) ==
  IF max_score <= 0 THEN "WEAK"
  ELSE IF score * 100 >= 90 * max_score THEN "STRONG"
  ELSE IF score * 100 >= 75 * max_score THEN "HIGH"
  ELSE IF score * 100 >= 60 * max_score THEN "MEDIUM"
  ELSE IF score * 100 >= 40 * max_score THEN "LOW"
  ELSE "WEAK"

\* rate_signal(signal_data, historical_data)['strength']
RateSignal(data, ratio, hour) ==
  CalculateStrength(TotalScore(data, ratio, hour), MaxScore)

\* a variant of the quality filter that drops WEAK only
FilteredWeakOnly(strength) == strength = "WEAK"

\* if quality['strength'] in ['WEAK', 'LOW']: return None
Filtered(strength) == strength \in {"WEAK", "LOW"}

\* ------------------------------------------- AdvancedSignalGenerator
\* Prices are whole numbers; the candle history enters through the values
\* the level code reads off it: the latest close, the latest ATR (positive),
\* the three lowest lows and the three highest highs of the last
\* LOOKBACK_BARS candles, each in ascending order. The latest candle is one
\* of them, so the lowest low is at most the close and the highest high at
\* least the close.
MIN_VOLUME == 1000000
MIN_CANDLES == 200
ATR_SL_MULT == 2
MIN_RR == 2
MIN_SCORE == 40

Volumes == {MIN_VOLUME - 1, MIN_VOLUME, 5 * MIN_VOLUME}
CandleCounts == {MIN_CANDLES - 1, MIN_CANDLES, MIN_CANDLES + 50}
\* <<buy_score, sell_score>> of _evaluate_signal_conditions
Scores == {<<50, 10>>, <<10, 50>>, <<45, 45>>, <<30, 30>>}
Closes == {1000}
Atrs == {4, 10}
SupportLevels ==
  {<<960, 970, 980>>, <<960, 970, 990>>, <<985, 990, 995>>, <<990, 1000, 1005>>}
ResistanceLevels ==
  {<<1000, 1002, 1005>>, <<1010, 1020, 1030>>, <<1080, 1090, 1100>>}
Hours == {3, 10, 18, 22}

Min2(a, b) == IF a <= b THEN a ELSE b
Max2(a, b) == IF a >= b THEN a ELSE b

\* lines 375-386: the direction, "none" for the return None
Direction(buy_score, sell_score) ==
  IF buy_score >= sell_score /\ buy_score >= MIN_SCORE THEN "buy"
  ELSE IF sell_score >= MIN_SCORE THEN "sell"
  ELSE "none"

\* sl of lines 396 and 411
StopLoss(side, entry, atr, lows, highs) ==
  IF side = "buy" THEN Min2(lows[1], entry - atr * ATR_SL_MULT)
  ELSE Max2(highs[3], entry + atr * ATR_SL_MULT)

\* tp1, tp2, tp3 of lines 399-406 (buy) and 414-432 (sell)
Targets(side, entry, atr, risk, lows, highs) ==
  IF side = "buy"
    THEN <<IF highs[1] < entry + risk THEN entry + risk ELSE highs[1],
           highs[2], highs[3]>>
  ELSE LET valid == {i \in 1..3 : lows[i] < entry}
           t == IF Cardinality(valid) >= 3
                  THEN <<lows[3], lows[2], lows[1]>>
                ELSE <<entry - atr * MIN_RR, entry - (atr * MIN_RR * 3) \div 2,
                       entry - atr * MIN_RR * 2>>
       IN  <<IF t[1] >= entry THEN entry - atr * MIN_RR ELSE t[1], t[2], t[3]>>

\* a variant that leaves tp1 as derived
KeepDerived(side, entry, risk, tp1) == tp1

\* lines 435-441: current_rr < MIN_RR, with risk > 0
CorrectRR(side, entry, risk, tp1) ==
  IF side = "buy"
    THEN (IF tp1 - entry < MIN_RR * risk THEN entry + risk * MIN_RR ELSE tp1)
  ELSE (IF entry - tp1 < MIN_RR * risk THEN entry - risk * MIN_RR ELSE tp1)

\* the locals of get_data_and_analyze after line 441; derived is tp1 before
\* the check of the minimal risk/reward
BuildLevels(symbol, side, entry, atr, lows, highs) ==
  LET sl == StopLoss(side, entry, atr, lows, highs)
      risk == IF side = "buy" THEN entry - sl ELSE sl - entry
      t == Targets(side, entry, atr, risk, lows, highs)
  IN  [symbol |-> symbol, side |-> side, entry |-> entry, sl |-> sl,
       risk |-> risk, derived |-> t[1],
       tp1 |-> CorrectRR(side, entry, risk, t[1]), tp2 |-> t[2], tp3 |-> t[3]]

NoCandidate ==
  [symbol |-> "", side |-> "none", entry |-> 0, sl |-> 0, risk |-> 0,
   derived |-> 0, tp1 |-> 0, tp2 |-> 0, tp3 |-> 0]

\* prepared_for_rating as the rater reads it: none of the keys the rater
\* looks up ('timeframe_analysis', 'signal_type', 'rsi', 'entry_price',
\* 'stop_loss', 'take_profit_1', 'atr') is among its keys
PreparedForRating ==
  [has_timeframe_analysis |-> FALSE,
   timeframe_analysis |-> [tf \in TimeframeSet |-> NoResult],
   signal_type |-> "", rsi |-> 0, entry_price |-> 0, stop_loss |-> 0,
   take_profit_1 |-> 0, atr |-> 0]

\* rate_signal(prepared_for_rating): no historical_data is passed
GeneratorRating(hour) == RateSignal(PreparedForRating, -1, hour)

NoLocals == [i |-> 0, volume |-> 0, candles |-> 0, raised |-> FALSE]

\* what the timeframes yield for a symbol of the cycle: the same outcome on
\* all three
CycleMarkets == {[tf \in TimeframeSet |-> o] : o \in TfOutcomes}

\* run_analysis_cycle: if not self.symbols: return []; signals = []
CycleStart ==
  /\ gPc = "start"
  /\ gSignals' = <<>>
  /\ gResults' = <<>>
  /\ gCand' = NoCandidate
  /\ IF gSymbols = <<>>
       THEN /\ gPc' = "done"
            /\ UNCHANGED <<gLocal, market>>
       ELSE /\ gPc' = "ticker"
            /\ gLocal' = [NoLocals EXCEPT !.i = 1]
            /\ market' \in CycleMarkets
  /\ UNCHANGED <<gSymbols, pairVars, trackerVars, workerVars, riskVars, raterVars,
                 statVars>>

\* a variant of the volume test that lets every volume through
AnyVolume(v) == FALSE

\* if daily_volume < self.MIN_VOLUME: return None
LowVolume(v) == v < MIN_VOLUME

\* await fetch_ticker returned: lines 347-353
GenTicker(v) ==
  /\ gPc = "ticker"
  /\ gLocal' = [gLocal EXCEPT !.volume = v, !.candles = 0, !.raised = FALSE]
  /\ gCand' = NoCandidate
  /\ IF LowVolume(v)
       THEN /\ gPc' = "sleep"
            /\ gResults' = Append(gResults, "low_volume")
       ELSE /\ gPc' = "candles"
            /\ UNCHANGED gResults
  /\ UNCHANGED <<gSymbols, gSignals, market, pairVars, trackerVars, workerVars,
                 riskVars, raterVars,
                 statVars>>

\* fetch_ticker or float() raised: except Exception ... return None
GenTickerRaises ==
  /\ gPc = "ticker"
  /\ gLocal' = [gLocal EXCEPT !.volume = 0, !.candles = 0, !.raised = TRUE]
  /\ gCand' = NoCandidate
  /\ gPc' = "sleep"
  /\ gResults' = Append(gResults, "raised")
  /\ UNCHANGED <<gSymbols, gSignals, market, pairVars, trackerVars, workerVars,
                 riskVars, raterVars,
                 statVars>>

\* the signal dict of lines 477-493
FinalSignal(c, rating) ==
  [symbol |-> c.symbol, side |-> c.side, entry |-> c.entry, tp1 |-> c.tp1,
   tp2 |-> c.tp2, tp3 |-> c.tp3, sl |-> c.sl, quality_rating |-> rating]

\* await fetch_ohlcv returned n candles: lines 357-499 and, in
\* run_analysis_cycle, if signal: signals.append(signal)
GenAnalyze(n, indicators_ok, scores, entry, atr, lows, highs, hour) ==
  /\ gPc = "candles"
  /\ gLocal' = [gLocal EXCEPT !.candles = n]
  /\ gPc' = "sleep"
  /\ LET side == Direction(scores[1], scores[2])
         c == BuildLevels(gSymbols[gLocal.i], side, entry, atr, lows, highs)
         rating == GeneratorRating(hour)
     IN  IF n < MIN_CANDLES \/ ~indicators_ok \/ side = "none"
           THEN /\ gCand' = NoCandidate
                /\ gResults' = Append(gResults,
                     IF n < MIN_CANDLES THEN "few_candles"
                     ELSE IF ~indicators_ok THEN "no_indicators"
                     ELSE "no_direction")
                /\ UNCHANGED gSignals
         ELSE IF Filtered(rating)
           THEN /\ gCand' = c
                /\ gResults' = Append(gResults, "filtered")
                /\ UNCHANGED gSignals
         ELSE /\ gCand' = c
              /\ gResults' = Append(gResults, "signal")
              /\ gSignals' = Append(gSignals, FinalSignal(c, rating))
  /\ UNCHANGED <<gSymbols, market, pairVars, trackerVars, workerVars, riskVars, raterVars,
                 statVars>>

\* fetch_ohlcv or a later line raised: except Exception ... return None
GenAnalyzeRaises ==
  /\ gPc = "candles"
  /\ gLocal' = [gLocal EXCEPT !.raised = TRUE]
  /\ gCand' = NoCandidate
  /\ gPc' = "sleep"
  /\ gResults' = Append(gResults, "raised")
  /\ UNCHANGED <<gSymbols, gSignals, market, pairVars, trackerVars, workerVars,
                 riskVars, raterVars,
                 statVars>>

\* await asyncio.sleep(0.3) returned: the next symbol, or return signals
GenSleep ==
  /\ gPc = "sleep"
  /\ IF gLocal.i < Len(gSymbols)
       THEN /\ gPc' = "ticker"
            /\ gLocal' = [NoLocals EXCEPT !.i = gLocal.i + 1]
            /\ market' \in CycleMarkets
       ELSE /\ gPc' = "done"
            /\ UNCHANGED <<gLocal, market>>
  /\ UNCHANGED <<gSymbols, gCand, gResults, gSignals, pairVars, trackerVars,
                 workerVars, riskVars, raterVars,
                 statVars>>

\* ------------------------------- analyze_all_timeframes and analyze_pair
\* ratio of the ticker's volume to the mean of the historical volumes fetched
\* for the rating, in hundredths; -1: _get_historical_volumes returned fewer
\* than 20 volumes ([] when its fetch raised)
VolumeRatios == {-1, 100, 160, 250}
Rsis == {25, 50, 75}
PairAtrs == {4, 20}

\* try: ... results[tf] = signal
TimeframeOk ==
  /\ aPc = "timeframes"
  /\ aIdx <= Len(Timeframes)
  /\ aResults' = [aResults EXCEPT ![Timeframes[aIdx]] = market[Timeframes[aIdx]]]
  /\ aIdx' = aIdx + 1
  /\ UNCHANGED <<aPc, aRaised, aConsensus, aSignal, market, generatorVars,
                 trackerVars, workerVars, riskVars, raterVars,
                 statVars>>

\* a variant of the except branch that ends the analysis of the symbol
RaiseAborts(results, tf) == [t \in DOMAIN results |-> DegradedResult]

\* except Exception: results[tf] = {'trend': 'neutral', 'signal': 'none', ...}
RaiseDegrades(results, tf) == [results EXCEPT ![tf] = DegradedResult]

\* fetch_ohlcv or the analysis of the timeframe raised
TimeframeRaises ==
  /\ aPc = "timeframes"
  /\ aIdx <= Len(Timeframes)
  /\ aResults' = RaiseDegrades(aResults, Timeframes[aIdx])
  /\ aRaised' = aRaised \cup {Timeframes[aIdx]}
  /\ aIdx' = aIdx + 1
  /\ UNCHANGED <<aPc, aConsensus, aSignal, market, generatorVars, trackerVars,
                 workerVars, riskVars, raterVars,
                 statVars>>

NoPairSignal ==
  [has_timeframe_analysis |-> FALSE,
   timeframe_analysis |-> [tf \in TimeframeSet |-> NoResult],
   signal_type |-> "none", rsi |-> 0, entry_price |-> 0, stop_loss |-> 0,
   take_profit_1 |-> 0, atr |-> 0, quality_rating |-> ""]

\* consensus = self._calculate_consensus(results); in analyze_pair the two
\* early returns on mtf_result
MtfReturn ==
  /\ aPc = "timeframes"
  /\ aIdx > Len(Timeframes)
  /\ aConsensus' = CalculateConsensus(aResults)
  /\ aPc' = IF ConsensusGatePasses(aConsensus') THEN "fetch" ELSE "done"
  /\ UNCHANGED <<aIdx, aResults, aRaised, aSignal, market, generatorVars,
                 trackerVars, workerVars, riskVars, raterVars,
                 statVars>>

\* the signal dict of lines 90-103 with the levels of lines 77-87
PairSignal(consensus, results, entry, atr, rsi) ==
  [has_timeframe_analysis |-> TRUE, timeframe_analysis |-> results,
   signal_type |-> consensus.final_signal, rsi |-> rsi, entry_price |-> entry,
   stop_loss |-> IF consensus.final_signal = "BUY"
                   THEN entry - (atr * 3) \div 2 ELSE entry + (atr * 3) \div 2,
   take_profit_1 |-> IF consensus.final_signal = "BUY"
                       THEN entry + atr ELSE entry - atr,
   atr |-> atr, quality_rating |-> ""]

\* the fetches returned: lines 66-122
PairRate(entry, atr, rsi, ratio, hour) ==
  /\ aPc = "fetch"
  /\ LET signal == PairSignal(aConsensus, aResults, entry, atr, rsi)
         strength == RateSignal(signal, ratio, hour)
     IN  aSignal' = IF Filtered(strength) THEN NoPairSignal
                    ELSE [signal EXCEPT !.quality_rating = strength]
  /\ aPc' = "done"
  /\ UNCHANGED <<aIdx, aResults, aRaised, aConsensus, market, generatorVars,
                 trackerVars, workerVars, riskVars, raterVars,
                 statVars>>

\* fetch_ohlcv, fetch_ticker or a later line raised: return None
PairRaises ==
  /\ aPc = "fetch"
  /\ aSignal' = NoPairSignal
  /\ aPc' = "done"
  /\ UNCHANGED <<aIdx, aResults, aRaised, aConsensus, market, generatorVars,
                 trackerVars, workerVars, riskVars, raterVars,
                 statVars>>

\* _calculate_consensus applied to a dict of results
ConsensusApply ==
  /\ aPc = "consensus"
  /\ aConsensus' = CalculateConsensus(aResults)
  /\ aPc' = "applied"
  /\ UNCHANGED <<aIdx, aResults, aRaised, aSignal, market, generatorVars,
                 trackerVars, workerVars, riskVars, raterVars,
                 statVars>>

\* --------------------------------------------- calls of the quality rater
MaxRatedScore == 20
MaxInstant == 1
MaxRuns == 2

\* the arguments _calculate_strength is applied to
StrengthScores == 0..MaxRatedScore
StrengthMaxima == {0, 4, 5, DocumentedMax, MaxScore, MaxRatedScore}

\* a call of _calculate_strength(score, max_score)
StrengthApply ==
  /\ kPc = "call"
  /\ kStrength' = CalculateStrength(kScore, kMax)
  /\ kPc' = "returned"
  /\ UNCHANGED <<kScore, kMax, qPc, qData, qRatio, qNow, qReports, market,
                 generatorVars, pairVars, trackerVars, workerVars, riskVars,
                 statVars>>

\* (total_score / max_possible) * 100 if max_possible > 0 else 0, in
\* hundredths of a percent
Percentage(score, max_score) ==
  IF max_score > 0 THEN (score * 10000) \div max_score ELSE 0

\* _get_recommendation
GetRecommendation(strength) ==
  CASE strength = "STRONG" -> "STRONG BUY/SELL - High confidence"
    [] strength = "HIGH" -> "BUY/SELL - Good setup"
    [] strength = "MEDIUM" -> "Consider BUY/SELL - Moderate confidence"
    [] strength = "LOW" -> "Watch for confirmation - Low confidence"
    [] strength = "WEAK" -> "Avoid - Weak setup"
    [] OTHER -> "No recommendation"

\* one entry of `factors`; details: the hour the reason of 'market_hours'
\* quotes, -1 for the factors whose details follow from their arguments
Factor(name, score, max, details) ==
  [name |-> name, score |-> score, max |-> max, details |-> details]

\* a variant of `factors` in which _check_divergence scores its point
FactorsDivergenceScored(data, ratio, hour) ==
  { Factor("mtf_consensus", RateMtfConsensus(data), 2, -1),
    Factor("trend_strength", RateTrendStrength(data), 2, -1),
    Factor("volume", RateVolume(ratio), 2, -1),
    Factor("rsi", RateRsi(data), 1, -1),
    Factor("risk_reward", RateRiskReward(data), 1, -1),
    Factor("volatility", RateVolatility(data), 1, -1),
    Factor("divergence", 1, 1, -1),
    Factor("support_resistance", 0, 1, -1),
    Factor("market_hours", RateTimeOfDay(hour), 1, hour),
    Factor("news", 0, 1, -1) }

\* the dict `factors` rate_signal fills, as the set of its entries
Factors(data, ratio, hour) ==
  { Factor("mtf_consensus", RateMtfConsensus(data), 2, -1),
    Factor("trend_strength", RateTrendStrength(data), 2, -1),
    Factor("volume", RateVolume(ratio), 2, -1),
    Factor("rsi", RateRsi(data), 1, -1),
    Factor("risk_reward", RateRiskReward(data), 1, -1),
    Factor("volatility", RateVolatility(data), 1, -1),
    Factor("divergence", 0, 1, -1),
    Factor("support_resistance", 0, 1, -1),
    Factor("market_hours", RateTimeOfDay(hour), 1, hour),
    Factor("news", 0, 1, -1) }

\* the signal_data {}: every key absent
EmptySignalData == [NoPairSignal EXCEPT !.signal_type = ""]

\* _create_empty_rating, called at the instant `stamp`
CreateEmptyRating(stamp) ==
  [strength |-> "WEAK", total_score |-> 0, max_score |-> 12, percentage |-> 0,
   factors |-> {}, recommendation |-> "No signal data", timestamp |-> stamp]

\* a variant of rate_signal whose 'market_hours' reason quotes the instant too
RateSignalReportInstant(data, ratio, now, stamp) ==
  [strength |-> CalculateStrength(TotalScore(data, ratio, now[1]), MaxScore),
   total_score |-> TotalScore(data, ratio, now[1]),
   max_score |-> MaxScore,
   percentage |-> Percentage(TotalScore(data, ratio, now[1]), MaxScore),
   factors |-> Factors(data, ratio, now[1])
                 \cup {Factor("instant", 0, 0, now[2])},
   recommendation |-> "No recommendation",
   timestamp |-> stamp]

\* the dict rate_signal returns when _rate_time_of_day reads the clock at
\* `now` and the return statement reads it at `stamp`
RateSignalReport(data, ratio, now, stamp) ==
  IF data = EmptySignalData THEN CreateEmptyRating(stamp)
  ELSE LET hour == now[1]
           total_score == TotalScore(data, ratio, hour)
           strength == CalculateStrength(total_score, MaxScore)
       IN  [strength |-> strength, total_score |-> total_score,
            max_score |-> MaxScore,
            percentage |-> Percentage(total_score, MaxScore),
            factors |-> Factors(data, ratio, hour),
            recommendation |-> GetRecommendation(strength),
            timestamp |-> stamp]

\* the values of the clock: an hour of the day and an instant of that hour
ClockValues == Hours \X (0..MaxInstant)

\* the clock never runs backwards
NotBefore(t, u) == u[1] > t[1] \/ (u[1] = t[1] /\ u[2] >= t[2])

\* the signal_data dicts analyze_pair builds
RatedPairSignals ==
  {PairSignal([final_signal |-> side], m, 1000, atr, rsi) :
     side \in {"BUY", "SELL"},
     m \in {[tf \in TimeframeSet |-> o] :
              o \in {TimeframeResult("BUY", 30, "bullish"),
                     TimeframeResult("SELL", 30, "bearish"),
                     TimeframeResult("none", 0, "bullish")}},
     atr \in PairAtrs, rsi \in {25, 75}}

\* the same dict with its first target at twice the stop distance
WideTarget(data) ==
  [data EXCEPT !.take_profit_1 =
     IF data.signal_type = "BUY"
     THEN data.entry_price + 2 * Distance(data.entry_price, data.stop_loss)
     ELSE data.entry_price - 2 * Distance(data.entry_price, data.stop_loss)]

\* the signal_data dicts the rater is called on
RaterInputs ==
  RatedPairSignals \cup {WideTarget(d) : d \in RatedPairSignals}
    \cup {EmptySignalData}

\* a call of rate_signal(qData, qRatio): the clock is read twice, at `now`
\* by _rate_time_of_day and at `stamp` by the return statement
RateSignalCall(now, stamp) ==
  /\ qPc = "call"
  /\ Len(qReports) < MaxRuns
  /\ NotBefore(qNow, now)
  /\ NotBefore(now, stamp)
  /\ qReports' = Append(qReports, RateSignalReport(qData, qRatio, now, stamp))
  /\ qNow' = stamp
  /\ UNCHANGED <<qPc, qData, qRatio, kPc, kScore, kMax, kStrength, market,
                 generatorVars, pairVars, trackerVars, workerVars, riskVars,
                 statVars>>

RaterStep == \E now \in ClockValues, stamp \in ClockValues :
               RateSignalCall(now, stamp)

\* ------------------------------------------------ EnhancedSignalTracker
MaxStatCalls == 5

\* no signal_statistics row
NoStatistic ==
  [direction |-> "", entry_price |-> 0, stop_loss |-> 0, take_profit_1 |-> 0,
   take_profit_2 |-> 0, take_profit_3 |-> 0, result |-> "", closed_at |-> 0,
   profit_loss_percent |-> 0]

\* the prices update_signal_result is called with
StatPrices == {870, 950, 975, 1000, 1030, 1050, 1090, 1130}

\* the SignalStatistic track_signal_result adds: result 'OPEN', closed_at and
\* profit_loss_percent NULL (0)
NewStatistic(direction, sl, tp1, tp2, tp3) ==
  [direction |-> direction, entry_price |-> 1000, stop_loss |-> sl,
   take_profit_1 |-> tp1, take_profit_2 |-> tp2, take_profit_3 |-> tp3,
   result |-> "OPEN", closed_at |-> 0, profit_loss_percent |-> 0]

\* the result update_signal_result determines for a price; "OPEN": it
\* returns without an update
StatResult(row, price) ==
  IF row.direction = "buy"
  THEN IF price >= row.take_profit_3 THEN "TP3"
       ELSE IF price >= row.take_profit_2 THEN "TP2"
       ELSE IF price >= row.take_profit_1 THEN "TP1"
       ELSE IF price <= row.stop_loss THEN "SL"
       ELSE "OPEN"
  ELSE IF price <= row.take_profit_3 THEN "TP3"
       ELSE IF price <= row.take_profit_2 THEN "TP2"
       ELSE IF price <= row.take_profit_1 THEN "TP1"
       ELSE IF price >= row.stop_loss THEN "SL"
       ELSE "OPEN"

\* the level a result stands for
StatLevel(row, result) ==
  CASE result = "TP3" -> row.take_profit_3
    [] result = "TP2" -> row.take_profit_2
    [] result = "TP1" -> row.take_profit_1
    [] result = "SL" -> row.stop_loss

\* profit: (level - entry) / entry * 100 for a buy, (entry - level) / entry
\* * 100 for a sell, in hundredths of a percent
StatProfit(row, result) ==
  IF row.direction = "buy"
  THEN ((StatLevel(row, result) - row.entry_price) * 10000) \div row.entry_price
  ELSE ((row.entry_price - StatLevel(row, result)) * 10000) \div row.entry_price

\* update_signal_result(signal_id, current_price, original_signal) with the
\* row of signal_id found
UpdateSignalResult(price) ==
  /\ stat # NoStatistic
  /\ eNow < MaxStatCalls
  /\ eNow' = eNow + 1
  /\ LET result == StatResult(stat, price)
     IN  stat' = IF result = "OPEN" THEN stat
                 ELSE [stat EXCEPT !.result = result, !.closed_at = eNow',
                                   !.profit_loss_percent = StatProfit(stat, result)]
  /\ UNCHANGED <<market, generatorVars, pairVars, raterVars, trackerVars,
                 workerVars, riskVars>>

StatisticStep == \E price \in StatPrices : UpdateSignalResult(price)

\* ------------------------------------------------------------ initial
UserIds == 1..NumUsers

\* Rows of the users table.  The first is the row get_or_create_user makes
\* (the column defaults, risk_reset_time NULL); the others carry settings
\* stored by the bot's handlers, 0 being the falsy value of a column.
UserProfiles ==
  { [daily_risk_limit |-> 20000, daily_risk_used |-> 0,
     max_open_positions |-> 5, has_reset |-> FALSE, rem |-> 0,
     deposit |-> 1000, risk_per_trade |-> 100, pairs |-> Symbols],
    [daily_risk_limit |-> 50000, daily_risk_used |-> 40000,
     max_open_positions |-> 1, has_reset |-> TRUE, rem |-> 1,
     deposit |-> 0, risk_per_trade |-> 0, pairs |-> Symbols],
    [daily_risk_limit |-> 50000, daily_risk_used |-> 49900,
     max_open_positions |-> 2, has_reset |-> TRUE, rem |-> 1,
     deposit |-> 700, risk_per_trade |-> 200, pairs |-> {"BTC/USDT"}],
    [daily_risk_limit |-> 0, daily_risk_used |-> 0,
     max_open_positions |-> 0, has_reset |-> TRUE, rem |-> 0,
     deposit |-> 1000, risk_per_trade |-> 100, pairs |-> {"ETH/USDT"}] }

\* OPEN rows a previous run left in signals_history: at most one per symbol
InitialHistories ==
  {h \in UNION {[1..n -> {NewSignalRow(Candidate(sym, side, 0)) :
                            sym \in Symbols, side \in Sides}] :
                n \in 0..MaxInitRows} :
     \A i, j \in 1..Len(h) : i # j => h[i].symbol # h[j].symbol}

\* SignalTracker.__init__, MarketWorker.__init__, RiskManager.__init__
InitProcesses ==
  /\ active_signals = <<>>
  /\ loadRows = <<>>
  /\ wPc = "idle"
  /\ wSig = NoSignal
  /\ nCand = 0
  /\ nextObj = 1
  /\ uPc = [u \in DOMAIN users |-> "idle"]
  /\ uSnap = [u \in DOMAIN users |-> NoSnap]
  /\ uCheck = [u \in DOMAIN users |-> NoCheck]
  /\ pPc = "sleep"
  /\ pSyms = {}
  /\ pTickers = <<>>
  /\ pCopy = <<>>
  /\ pIdx = 1
  /\ pOutcome = "NONE"
  /\ pPrice = 0
  /\ sPc = "sleep"
  /\ sSnap = [u \in DOMAIN users |-> NoSweep]
  /\ delivered = [u \in DOMAIN users |-> {}]
  /\ closedObjs = {}
  /\ pFailed = 0

\* no call of the rater under way, nothing recorded by EnhancedSignalTracker
RaterIdle ==
  /\ stat = NoStatistic
  /\ eNow = 0
  /\ kPc = "idle"
  /\ kScore = 0
  /\ kMax = 0
  /\ kStrength = ""
  /\ qPc = "idle"
  /\ qData = EmptySignalData
  /\ qRatio = -1
  /\ qNow = <<0, 0>>
  /\ qReports = <<>>

\* no analysis under way
AnalysisIdle ==
  /\ market = [tf \in TimeframeSet |-> DegradedResult]
  /\ gPc = "idle"
  /\ gSymbols = <<>>
  /\ gLocal = NoLocals
  /\ gCand = NoCandidate
  /\ gResults = <<>>
  /\ gSignals = <<>>
  /\ aPc = "idle"
  /\ aIdx = 1
  /\ aRaised = {}
  /\ aResults = [tf \in TimeframeSet |-> NoResult]
  /\ aConsensus = NoConsensus
  /\ aSignal = NoPairSignal
  /\ RaterIdle

\* the tracker, the worker and the risk manager at rest, no recipient
RestIdle ==
  /\ users = <<>>
  /\ history = <<>>
  /\ loadPc = "done"
  /\ maxCand = 0
  /\ InitProcesses

\* self.symbols of AdvancedSignalGenerator.__init__ / update_symbols
SymbolLists == {<<>>, <<"ETH/USDT">>, <<"BTC/USDT", "ETH/USDT">>}

\* a call of run_analysis_cycle
InitGenerator ==
  /\ RestIdle
  /\ market = [tf \in TimeframeSet |-> DegradedResult]
  /\ gPc = "start"
  /\ gSymbols \in SymbolLists
  /\ gLocal = NoLocals
  /\ gCand = NoCandidate
  /\ gResults = <<>>
  /\ gSignals = <<>>
  /\ aPc = "idle"
  /\ aIdx = 1
  /\ aRaised = {}
  /\ aResults = [tf \in TimeframeSet |-> NoResult]
  /\ aConsensus = NoConsensus
  /\ aSignal = NoPairSignal
  /\ RaterIdle

\* a call of analyze_pair: results = {} in analyze_all_timeframes
InitPair ==
  /\ RestIdle
  /\ market \in Markets
  /\ gPc = "idle"
  /\ gSymbols = <<>>
  /\ gLocal = NoLocals
  /\ gCand = NoCandidate
  /\ gResults = <<>>
  /\ gSignals = <<>>
  /\ aPc = "timeframes"
  /\ aIdx = 1
  /\ aRaised = {}
  /\ aResults = [tf \in TimeframeSet |-> NoResult]
  /\ aConsensus = NoConsensus
  /\ aSignal = NoPairSignal
  /\ RaterIdle

\* the dicts _calculate_consensus is applied to: any signal with any strength
\* of its range
ConsensusInputs ==
  {TimeframeResult(signal, strength, "bullish") :
     signal \in {"BUY", "SELL", "none"}, strength \in {0, 30, 100}}

\* a call of _calculate_consensus
InitConsensus ==
  /\ RestIdle
  /\ market = [tf \in TimeframeSet |-> DegradedResult]
  /\ gPc = "idle"
  /\ gSymbols = <<>>
  /\ gLocal = NoLocals
  /\ gCand = NoCandidate
  /\ gResults = <<>>
  /\ gSignals = <<>>
  /\ aPc = "consensus"
  /\ aIdx = 1
  /\ aRaised = {}
  /\ aResults \in [TimeframeSet -> ConsensusInputs]
  /\ aConsensus = NoConsensus
  /\ aSignal = NoPairSignal
  /\ RaterIdle

\* no analysis and no other call of the rater under way
RestOfAnalysisIdle ==
  /\ market = [tf \in TimeframeSet |-> DegradedResult]
  /\ gPc = "idle"
  /\ gSymbols = <<>>
  /\ gLocal = NoLocals
  /\ gCand = NoCandidate
  /\ gResults = <<>>
  /\ gSignals = <<>>
  /\ aPc = "idle"
  /\ aIdx = 1
  /\ aRaised = {}
  /\ aResults = [tf \in TimeframeSet |-> NoResult]
  /\ aConsensus = NoConsensus
  /\ aSignal = NoPairSignal

\* a call of _calculate_strength
InitStrength ==
  /\ RestIdle
  /\ RestOfAnalysisIdle
  /\ kPc = "call"
  /\ kScore \in StrengthScores
  /\ kMax \in StrengthMaxima
  /\ kStrength = ""
  /\ qPc = "idle"
  /\ qData = EmptySignalData
  /\ qRatio = -1
  /\ qNow = <<0, 0>>
  /\ qReports = <<>>
  /\ stat = NoStatistic
  /\ eNow = 0

\* calls of rate_signal on one signal_data and one historical_data
InitRater ==
  /\ RestIdle
  /\ RestOfAnalysisIdle
  /\ kPc = "idle"
  /\ kScore = 0
  /\ kMax = 0
  /\ kStrength = ""
  /\ qPc = "call"
  /\ qData \in RaterInputs
  /\ qRatio \in VolumeRatios
  /\ qNow \in Hours \X {0}
  /\ qReports = <<>>
  /\ stat = NoStatistic
  /\ eNow = 0

\* the rows track_signal_result has stored for a buy and for a sell, with
\* three targets or with the first one only (0 for the keys the dict lacks)
TrackedStatistics ==
  {NewStatistic("buy", 980, 1040, 1080, 1120),
   NewStatistic("buy", 980, 1040, 0, 0),
   NewStatistic("sell", 1020, 960, 920, 880),
   NewStatistic("sell", 1020, 960, 0, 0)}

\* calls of update_signal_result for one signal, self.session being the
\* session factory
InitStatistic ==
  /\ RestIdle
  /\ RestOfAnalysisIdle
  /\ kPc = "idle"
  /\ kScore = 0
  /\ kMax = 0
  /\ kStrength = ""
  /\ qPc = "idle"
  /\ qData = EmptySignalData
  /\ qRatio = -1
  /\ qNow = <<0, 0>>
  /\ qReports = <<>>
  /\ stat \in TrackedStatistics
  /\ eNow = 0

\* start-up of the tracker after a restart, no premium recipient
InitTracker ==
  /\ users = <<>>
  /\ history \in InitialHistories
  /\ loadPc = "select"
  /\ maxCand = MaxTrackerCandidates
  /\ InitProcesses
  /\ AnalysisIdle

\* OPEN rows of both symbols a previous run left in signals_history
TwoOpenRows ==
  {<<NewSignalRow(Candidate("BTC/USDT", s1, 0)),
     NewSignalRow(Candidate("ETH/USDT", s2, 0))>> : s1 \in Sides, s2 \in Sides}

\* start-up of the tracker after a restart with two signals open
InitRestart ==
  /\ users = <<>>
  /\ history \in TwoOpenRows
  /\ loadPc = "select"
  /\ maxCand = MaxTrackerCandidates
  /\ InitProcesses
  /\ AnalysisIdle

\* rows of premium users: the column defaults, and a row whose
\* risk_reset_time has elapsed
BroadcastProfiles ==
  { [daily_risk_limit |-> 20000, daily_risk_used |-> 0,
     max_open_positions |-> 5, has_reset |-> FALSE, rem |-> 0,
     deposit |-> 1000, risk_per_trade |-> 100, pairs |-> Symbols],
    [daily_risk_limit |-> 50000, daily_risk_used |-> 40000,
     max_open_positions |-> 5, has_reset |-> TRUE, rem |-> -1,
     deposit |-> 1000, risk_per_trade |-> 100, pairs |-> Symbols] }

\* one signal broadcast to MaxRecipients premium recipients
InitBroadcast ==
  /\ users \in [1..MaxRecipients -> BroadcastProfiles]
  /\ history = <<>>
  /\ loadPc = "done"
  /\ maxCand = 1
  /\ InitProcesses
  /\ AnalysisIdle

\* start-up on an empty signals_history with NumUsers premium recipients,
\* for the runs of send_to_one_user, the risk manager and the sweep
InitRisk ==
  /\ users \in [UserIds -> UserProfiles]
  /\ history = <<>>
  /\ loadPc = "done"
  /\ maxCand = MaxRiskCandidates
  /\ InitProcesses
  /\ AnalysisIdle

\* the same start-up for the runs that follow deliveries to their closure
InitDelivery ==
  /\ users \in [UserIds -> UserProfiles]
  /\ history = <<>>
  /\ loadPc = "done"
  /\ maxCand = MaxDeliveryCandidates
  /\ InitProcesses
  /\ AnalysisIdle

Init ==
  /\ users \in [UserIds -> UserProfiles]
  /\ history \in InitialHistories
  /\ loadPc = "select"
  /\ maxCand = MaxTrackerCandidates
  /\ InitProcesses
  /\ AnalysisIdle

\* ---------------------------------------------------------------- next
LoadStep == LoadSelect \/ LoadAppend

\* the main loop of MarketWorker.start as written
WorkerStep ==
  \/ CycleRaises
  \/ WorkerNewSignal
  \/ AddSave
  \/ AddSaveRaises
  \/ AddAppend
  \/ BroadcastRaises
  \/ WorkerCooldown

\* the main loop with the recipients' part of broadcast_signal entered
\* directly for every signal, to study send_to_one_user and the risk manager
FanOutStep ==
  \/ WorkerNewSignal
  \/ AddSave
  \/ AddAppend
  \/ BroadcastStart
  \/ GatherDone

PollStep ==
  \/ PollFetchStart
  \/ PollFetchReturn
  \/ PollEval
  \/ PollCloseDbOk
  \/ PollCloseDbFail
  \/ PollNotifyRemove
  \/ PollNotifyFail
  \/ PollEndTick

UserStep ==
  \E u \in DOMAIN users :
    \/ CheckGet(u)
    \/ CheckCommit(u)
    \/ CheckCount(u)
    \/ SendOk(u)
    \/ SendFail(u)
    \/ UpdateGet(u)
    \/ UpdateCommit(u)

SweepStep == SweepSelect \/ SweepCommit

NextTracker == LoadStep \/ WorkerStep \/ PollStep

NextRisk == FanOutStep \/ UserStep \/ SweepStep \/ Tick

NextDelivery == FanOutStep \/ PollStep \/ UserStep

\* the recipients' part of broadcast_signal with a risk check that can raise
NextBroadcast ==
  \/ FanOutStep
  \/ UserStep
  \/ \E u \in DOMAIN users : CheckRaises(u)
  \/ GatherRaises
  \/ WorkerCooldown

\* the program as written: no send_to_one_user is ever started
Next == LoadStep \/ WorkerStep \/ PollStep \/ SweepStep \/ Tick

\* run_analysis_cycle with its calls of get_data_and_analyze
GeneratorStep ==
  \/ CycleStart
  \/ \E v \in Volumes : GenTicker(v)
  \/ GenTickerRaises
  \/ \E n \in CandleCounts, indicators_ok \in BOOLEAN, scores \in Scores,
        entry \in Closes, atr \in Atrs, lows \in SupportLevels,
        highs \in ResistanceLevels, hour \in Hours :
       GenAnalyze(n, indicators_ok, scores, entry, atr, lows, highs, hour)
  \/ GenAnalyzeRaises
  \/ GenSleep

\* analyze_pair with its call of analyze_all_timeframes
PairStep ==
  \/ TimeframeOk
  \/ TimeframeRaises
  \/ MtfReturn
  \/ \E entry \in Closes, atr \in PairAtrs, rsi \in Rsis,
        ratio \in VolumeRatios, hour \in Hours :
       PairRate(entry, atr, rsi, ratio, hour)
  \/ PairRaises

SpecGenerator == InitGenerator /\ [][GeneratorStep]_vars

SpecPair == InitPair /\ [][PairStep]_vars

SpecConsensus == InitConsensus /\ [][ConsensusApply]_vars

SpecStrength == InitStrength /\ [][StrengthApply]_vars

SpecRater == InitRater /\ [][RaterStep]_vars

SpecTracker == InitTracker /\ [][NextTracker]_vars

SpecStatistic == InitStatistic /\ [][StatisticStep]_vars

SpecBroadcast == InitBroadcast /\ [][NextBroadcast]_vars

\* the tracker and the worker after a restart with two signals open
SpecRestart == InitRestart /\ [][NextTracker]_vars

SpecRisk == InitRisk /\ [][NextRisk]_vars

SpecDelivery == InitDelivery /\ [][NextDelivery]_vars

\* SpecTracker with the event loop's scheduling: a task that can run is run
SpecTrackerFair ==
  /\ SpecTracker
  /\ WF_vars(LoadStep)
  /\ WF_vars(WorkerStep)
  /\ WF_vars(PollStep)

\* SpecRisk with the event loop's scheduling: every coroutine that can run
\* is run, and the clock keeps advancing whenever no session is open.
SpecRiskFair ==
  /\ SpecRisk
  /\ WF_vars(FanOutStep)
  /\ WF_vars(UserStep)
  /\ WF_vars(SweepStep)
  /\ SF_vars(Tick)

Spec == Init /\ [][Next]_vars

\* =================================================================== claims

\* the polling loop is about to evaluate pCopy[pIdx] against a fetched price
Evaluating ==
  /\ pPc = "loop"
  /\ pIdx <= Len(pCopy)
  /\ pCopy[pIdx].symbol \in DOMAIN pTickers

\* this step is the polling loop's
PollMoves == pPc' # pPc \/ pIdx' # pIdx

\* C1: in start_monitoring, for every open signal and every observed price,
\* a buy signal is closed with outcome TP iff price >= target, with outcome
\* SL iff price <= stop and the target test did not fire, and stays open
\* for every price strictly between stop and target; for a sell signal the
\* comparisons are mirrored.  The outcome the test chose is the one
\* close_signal_in_db records on the symbol's OPEN row.
C1_OutcomeFollowsPrice ==
  [][ /\ (Evaluating /\ PollMoves) =>
           LET sig == pCopy[pIdx]
               price == pTickers[sig.symbol]
               hitTP == IF sig.side = "buy" THEN price >= sig.tp
                                            ELSE price <= sig.tp
               hitSL == IF sig.side = "buy" THEN price <= sig.sl
                                            ELSE price >= sig.sl
               between == IF sig.side = "buy"
                          THEN sig.sl < price /\ price < sig.tp
                          ELSE sig.tp < price /\ price < sig.sl
               closing == pPc' = "close_db" /\ pPrice' = price /\ pIdx' = pIdx
           IN /\ (closing /\ pOutcome' = "TP") <=> hitTP
              /\ (closing /\ pOutcome' = "SL") <=> (hitSL /\ ~hitTP)
              /\ between => /\ pPc' = "loop"
                            /\ pIdx' = pIdx + 1
                            /\ active_signals' = active_signals
                            /\ history' = history
      /\ (pPc = "close_db" /\ pPc' = "notify") =>
           \A i \in OpenRowIdsOf(history, pCopy[pIdx].symbol) :
             /\ history'[i].status = pOutcome
             /\ history'[i].exit_price = pPrice
    ]_vars

\* C1 witness: a buy signal whose price reached the target is being closed
\* with TP, and its row carries TP.
C1_Witness ==
  /\ pPc = "notify"
  /\ pOutcome = "TP"
  /\ pCopy[pIdx].side = "buy"
  /\ pPrice >= pCopy[pIdx].tp
  /\ \E i \in 1..Len(history) :
       history[i].symbol = pCopy[pIdx].symbol /\ history[i].status = "TP"

\* C2: in every reachable state the open set holds at most one entry per
\* symbol and signals_history at most one OPEN row per symbol, whatever the
\* interleaving of add_signal, the start-up load and the polling loop.
C2_OneOpenPerSymbol ==
  \A sym \in Symbols :
    /\ CountSymbol(active_signals, sym) <= 1
    /\ Cardinality(OpenRowIdsOf(history, sym)) <= 1

\* C3 (as stated): at most one terminal transition fires per tick for an
\* open signal, and once it has fired the signal is absent from the open set
\* when that tick ends and is never evaluated again.
C3_FiredMeansGoneAtTickEnd ==
  [][ /\ (pPc \in {"close_db", "notify"} /\ pPc' \in {"loop", "sleep"}) =>
           pCopy[pIdx].obj \notin ObjsOf(active_signals')
      /\ \A i \in 1..Len(history) :
           history[i].status # "OPEN" => history'[i] = history[i]
      /\ ObjsOf(active_signals') \cap closedObjs = {}
    ]_vars

\* C3 (amended): at most one terminal transition (TP or SL, never both) is
\* recorded for a signal; when the closing sequence completes
\* (close_signal_in_db and notify_all_premium return) the signal is removed
\* from the open set, exactly once, is absent for the rest of the tick and
\* afterwards, and only signals of the open set are evaluated; when
\* persisting or notifying raises, the tick ends and the signal stays in
\* the open set.
C3_ClosedMeansGone ==
  [][ /\ (pPc = "notify" /\ pPc' = "loop") =>
           /\ pCopy[pIdx].obj \in ObjsOf(active_signals)
           /\ pCopy[pIdx].obj \notin ObjsOf(active_signals')
           /\ pCopy[pIdx].obj \notin closedObjs
           /\ Len(active_signals') = Len(active_signals) - 1
           /\ pIdx' = pIdx + 1
      /\ (pPc \in {"close_db", "notify"} /\ pPc' = "sleep") =>
           /\ active_signals' = active_signals
           /\ pCopy[pIdx].obj \in ObjsOf(active_signals')
      /\ Len(active_signals') < Len(active_signals) =>
           (pPc = "notify" /\ pPc' = "loop")
      /\ \A i \in 1..Len(history) :
           history[i].status # "OPEN" => history'[i] = history[i]
      /\ ObjsOf(active_signals') \cap closedObjs' = {}
      /\ (Evaluating /\ PollMoves) =>
           /\ pCopy[pIdx].obj \in ObjsOf(active_signals)
           /\ pCopy[pIdx].obj \notin closedObjs
    ]_vars

\* C3 witness: a signal that fired has been closed and removed and the loop
\* goes on with the tick.
C3_Witness ==
  /\ pPc = "loop"
  /\ pIdx > 1
  /\ pCopy[pIdx - 1].obj \in closedObjs
  /\ pCopy[pIdx - 1].obj \notin ObjsOf(active_signals)

\* the verdicts check_user_limits reaches once the daily-limit test is done
DecidedPhases == {"rejected_daily", "daily_ok", "rejected_positions", "allowed"}

\* daily_risk_used as the daily-limit test sees it for the row the check
\* read: 0 when that row's reset time had elapsed
UsedAfterLazyReset(row) ==
  IF row.has_reset /\ row.rem < 0 THEN 0 ELSE row.daily_risk_used

\* the recipient's daily limit: the stored value, 5.0 % when none is stored
LimitOf(row) == IF row.daily_risk_limit = 0 THEN 50000 ELSE row.daily_risk_limit

\* C4: check_user_limits rejects on the daily-limit ground exactly when
\* daily_risk_used (taken after the lazy reset) + signal_risk is greater
\* than the recipient's daily_risk_limit; when the sum is at most the limit
\* the check goes on to the position cap.
C4_DailyLimitVerdict ==
  \A u \in DOMAIN users :
    uCheck[u].phase \in DecidedPhases =>
      ( uCheck[u].phase = "rejected_daily"
          <=> UsedAfterLazyReset(uCheck[u].row) + uCheck[u].risk
                > LimitOf(uCheck[u].row) )

\* C4 witness: used 4.0, limit 5.0, signal_risk 2.0 is rejected
C4_Witness ==
  \E u \in DOMAIN users :
    /\ uCheck[u].phase = "rejected_daily"
    /\ uCheck[u].row.daily_risk_used = 40000
    /\ uCheck[u].row.daily_risk_limit = 50000
    /\ uCheck[u].risk = 20000


\* C5: for every recipient daily_risk_used never exceeds the recipient's
\* daily limit, whatever the interleaving of checks, deliveries,
\* update_daily_risk calls, lazy resets and sweeps.
C5_UsedWithinLimit ==
  \A u \in DOMAIN users : users[u].daily_risk_used <= LimitOf(users[u])

\* C5 witness: the default recipient (limit 2.0) was charged for two
\* deliveries, one of them admitted with used + signal_risk = limit
C5_Witness ==
  \E u \in DOMAIN users :
    /\ Cardinality(delivered[u]) = 2
    /\ uPc[u] = "done"
    /\ users[u].daily_risk_limit = 20000
    /\ users[u].daily_risk_used = 290

\* C6: daily_risk_used of a recipient increases only in the commit of
\* update_daily_risk that follows a successful send of the current signal to
\* that recipient; check_user_limits never increases it, and a failed send
\* leaves it unchanged and ends send_to_one_user without update_daily_risk.
C6_ChargedOnlyAfterSend ==
  [][ \A u \in DOMAIN users :
        /\ users'[u].daily_risk_used > users[u].daily_risk_used =>
             /\ uPc[u] = "update_commit"
             /\ uPc'[u] = "done"
             /\ wSig.obj \in delivered[u]
        /\ uPc[u] \in {"check_get", "check_commit", "check_count"}
             /\ uPc'[u] # uPc[u] =>
             users'[u].daily_risk_used <= users[u].daily_risk_used
        /\ uPc[u] = "send" /\ uPc'[u] # uPc[u] /\ wSig.obj \notin delivered'[u] =>
             /\ uPc'[u] = "done"
             /\ users'[u] = users[u]
        /\ uPc'[u] \in {"update_get", "update_commit"} => wSig.obj \in delivered'[u]
    ]_vars

\* C6 witness: the default recipient was charged 0.02 % after a delivery
C6_Witness ==
  \E u \in DOMAIN users :
    /\ uPc[u] = "done"
    /\ wSig.obj \in delivered[u]
    /\ users[u].daily_risk_used = 200


\* C7: when check_user_limits reads a recipient whose reset time has
\* elapsed, it stores daily_risk_used = 0 and a reset time one day ahead
\* (in the future) before the daily-limit test, which then sees 0 used; when
\* the reset time has not elapsed (or none is stored) the check changes
\* neither daily_risk_used nor the reset time.
C7_LazyReset ==
  [][ \A u \in DOMAIN users :
        /\ (uPc[u] = "check_get" /\ uPc'[u] # uPc[u]) =>
             /\ users'[u] = users[u]
             /\ (uPc'[u] = "check_commit")
                  <=> (users[u].has_reset /\ users[u].rem < 0)
             /\ uPc'[u] # "check_commit" => uCheck'[u].phase \in DecidedPhases
        /\ (uPc[u] = "check_commit" /\ uPc'[u] # uPc[u]) =>
             /\ users'[u].daily_risk_used = 0
             /\ users'[u].has_reset
             /\ users'[u].rem = OneDay
             /\ users'[u].rem > 0
             /\ uCheck'[u].phase \in {"rejected_daily", "daily_ok"}
             /\ (uCheck'[u].phase = "rejected_daily")
                  <=> (uCheck'[u].risk > LimitOf(users'[u]))
        /\ (uPc[u] = "check_count" /\ uPc'[u] # uPc[u]) =>
             users'[u] = users[u]
    ]_vars

\* C7 witness: a lazy reset happened: the row read had an elapsed reset
\* time and risk used, the stored row has none used and a future reset time
C7_Witness ==
  \E u \in DOMAIN users :
    /\ uCheck[u].phase \in DecidedPhases
    /\ uCheck[u].row.has_reset
    /\ uCheck[u].row.rem < 0
    /\ uCheck[u].row.daily_risk_used > 0
    /\ users[u].daily_risk_used = 0
    /\ users[u].rem = OneDay


\* C10: for every admitted candidate position_size is
\* (deposit * risk_per_trade / 100) / (signal_risk / 100) rounded to two
\* decimals (the nearest cent), deposit and risk_per_trade being the stored
\* values, 1000 and 1.0 when none is stored.
C10_PositionSize ==
  \A u \in DOMAIN users :
    uCheck[u].phase = "allowed" =>
      LET row == uCheck[u].row
          d == IF row.deposit = 0 THEN 1000 ELSE row.deposit
          r == IF row.risk_per_trade = 0 THEN 100 ELSE row.risk_per_trade
          n == d * r * 10000
      IN /\ uCheck[u].risk > 0
         /\ 2 * Abs(uCheck[u].size * uCheck[u].risk - n) <= uCheck[u].risk

\* C10 witness: no deposit and no risk_per_trade stored, stop distance
\* 0.9 %: (1000 * 1.0 / 100) / (0.9 / 100) = 1111.11
C10_Witness ==
  \E u \in DOMAIN users :
    /\ uCheck[u].phase = "allowed"
    /\ uCheck[u].row.deposit = 0
    /\ uCheck[u].row.risk_per_trade = 0
    /\ uCheck[u].risk = 9000
    /\ uCheck[u].size = 111111


\* C8: the daily budget is rolling: whenever a recipient's daily_risk_used
\* is positive it is eventually reset to 0 (by the lazy check or the
\* sweep) as time advances, also for a recipient created with the column
\* defaults, whose risk_reset_time is unset.
C8_BudgetRolls ==
  \A u \in UserIds :
    (users[u].daily_risk_used > 0) ~> (users[u].daily_risk_used = 0)

\* C9: the number of still-open tracked signals delivered to a recipient
\* never exceeds the recipient's max_open_positions (5 when none is
\* stored).
C9_OpenPositionsWithinCap ==
  \A u \in DOMAIN users :
    Cardinality(delivered[u] \cap ObjsOf(active_signals))
      <= (IF users[u].max_open_positions = 0
          THEN 5 ELSE users[u].max_open_positions)

\* ------------------------------------------------ candidates and levels
\* the levels get_data_and_analyze derived for the symbol it last analysed
Built(side) == gPc \in {"sleep", "ticker", "done"} /\ gCand.side = side

C13_RewardRisk ==
  \A side \in Sides :
    Built(side) =>
      LET risk == Distance(gCand.entry, gCand.sl)
          derivedReward == IF side = "buy" THEN gCand.derived - gCand.entry
                           ELSE gCand.entry - gCand.derived
          exact == IF side = "buy" THEN gCand.entry + risk * MIN_RR
                   ELSE gCand.entry - risk * MIN_RR
      IN  /\ risk > 0
          /\ Distance(gCand.tp1, gCand.entry) >= MIN_RR * risk
          /\ gCand.tp1 = IF derivedReward < MIN_RR * risk THEN exact
                         ELSE gCand.derived

\* a SELL candidate whose tp1 the correction moved
C13_Witness ==
  /\ Built("sell")
  /\ gCand.tp1 # gCand.derived
  /\ gCand.tp1 = gCand.entry - MIN_RR * (gCand.sl - gCand.entry)

\* the call of get_data_and_analyze for a symbol returned None
ReturnedNone ==
  /\ gPc' = "sleep"
  /\ gSignals' = gSignals
  /\ Len(gResults') = Len(gResults) + 1
  /\ gResults'[Len(gResults')] # "signal"

\* C14: get_data_and_analyze returns no candidate when the 24h quote volume is
\* below MIN_VOLUME or fewer than 200 1h candles came back; an exception for a
\* symbol yields no candidate for it, and run_analysis_cycle goes on to every
\* remaining symbol before it returns.
C14_GatesAndIsolation ==
  [][/\ (gPc = "ticker" /\ gPc' # "ticker" /\
           (gLocal'.raised \/ gLocal'.volume < MIN_VOLUME)) => ReturnedNone
     /\ (gPc = "candles" /\ gPc' # "candles" /\
           (gLocal'.raised \/ gLocal'.candles < MIN_CANDLES)) => ReturnedNone
     /\ (gPc = "sleep" /\ gLocal.i < Len(gSymbols)) =>
           (gPc' = "ticker" /\ gLocal'.i = gLocal.i + 1)
     /\ (gPc # "done" /\ gPc' = "done") => Len(gResults') = Len(gSymbols)
    ]_vars

\* a cycle over two symbols that ended after an exception for the first and a
\* low volume for the second
C14_Witness ==
  /\ gPc = "done"
  /\ gResults = <<"raised", "low_volume">>
  /\ gSignals = <<>>

Tally(side) ==
  (IF aResults["15m"].signal = side THEN 2 ELSE 0)
    + (IF aResults["1h"].signal = side THEN 3 ELSE 0)
    + (IF aResults["4h"].signal = side THEN 5 ELSE 0)

\* strength * weight summed over the timeframes with a direction, in
\* thousandths
StrengthSum ==
  (IF aResults["15m"].signal \in {"BUY", "SELL"}
     THEN 2 * aResults["15m"].strength ELSE 0)
    + (IF aResults["1h"].signal \in {"BUY", "SELL"}
         THEN 3 * aResults["1h"].strength ELSE 0)
    + (IF aResults["4h"].signal \in {"BUY", "SELL"}
         THEN 5 * aResults["4h"].strength ELSE 0)

\* C17: _calculate_consensus returns final_signal 'none' with confidence
\* exactly 0 when no timeframe result carries a directional signal.
C17_NoSignalNoConfidence ==
  (aPc = "applied" /\ \A tf \in TimeframeSet : aResults[tf].signal = "none") =>
    /\ aConsensus.final_signal = "none"
    /\ aConsensus.confidence.num = 0

\* three results without a direction, one of them with a strength
C17_Witness ==
  /\ aPc = "applied"
  /\ \A tf \in TimeframeSet : aResults[tf].signal = "none"
  /\ aResults["4h"].strength = 100
  /\ aConsensus.final_signal = "none"
  /\ aConsensus.confidence.num = 0

\* C18: when the BUY and the SELL tallies are equal and not zero,
\* _calculate_consensus returns final_signal 'none' with confidence exactly 0.
C18_TieNoConfidence ==
  (aPc = "applied" /\ Tally("BUY") = Tally("SELL") /\ Tally("BUY") > 0) =>
    /\ aConsensus.final_signal = "none"
    /\ aConsensus.confidence.num = 0

\* C19: when one tally is strictly larger, _calculate_consensus returns its
\* direction with confidence (winning tally / participating weight + sum of
\* strength * weight over the participating timeframes) / 2, which lies in
\* [0, 1]; results with signal 'none' count in neither term.
C19_WinnerConfidence ==
  (aPc = "applied" /\ Tally("BUY") # Tally("SELL")) =>
    LET win == IF Tally("BUY") > Tally("SELL") THEN "BUY" ELSE "SELL"
        total == Tally("BUY") + Tally("SELL")
        c == aConsensus.confidence
    IN  /\ aConsensus.final_signal = win
        /\ c.den > 0
        /\ c.num * 2000 * total = c.den * (1000 * Tally(win) + StrengthSum * total)
        /\ 0 <= c.num
        /\ c.num <= c.den

\* BUY wins on 15m and 1h while 4h carries 'none' with a strength of 1.0:
\* confidence (1 + 0.15) / 2
C19_Witness ==
  /\ aPc = "applied"
  /\ aResults["15m"] = TimeframeResult("BUY", 30, "bullish")
  /\ aResults["1h"] = TimeframeResult("BUY", 30, "bullish")
  /\ aResults["4h"] = TimeframeResult("none", 100, "bullish")
  /\ aConsensus.final_signal = "BUY"
  /\ aConsensus.confidence.num * 200 = aConsensus.confidence.den * 115

\* ----------------------------------------------- analyze_all_timeframes
\* what the analysis of a timeframe left in `results`
ResultOf(tf) == IF tf \in aRaised THEN DegradedResult ELSE market[tf]

\* C20: in analyze_all_timeframes an exception in the analysis of a timeframe
\* sets that timeframe's result to signal none, strength 0 and leaves the
\* others alone; it is not propagated: every timeframe is analysed and the
\* consensus is computed over all of them.
C20_TimeframeDegrades ==
  /\ \A i \in DOMAIN Timeframes :
       aResults[Timeframes[i]] =
         IF i < aIdx THEN ResultOf(Timeframes[i]) ELSE NoResult
  /\ aPc \in {"fetch", "done"} =>
       /\ aIdx = Len(Timeframes) + 1
       /\ aConsensus = CalculateConsensus([tf \in TimeframeSet |-> ResultOf(tf)])

\* the analysis of 1h raised after 15m was analysed, 4h was analysed after it
\* and the consensus is BUY
C20_Witness ==
  /\ aPc = "fetch"
  /\ aRaised = {"1h"}
  /\ aResults["15m"].signal = "BUY"
  /\ aResults["1h"] = DegradedResult
  /\ aResults["4h"].signal = "BUY"
  /\ aConsensus.final_signal = "BUY"

\* ------------------------------------------------------- quality filter
\* C16: no signal analyze_pair or get_data_and_analyze returns is rated WEAK
\* or LOW.
C16_NoWeakOrLowReturned ==
  /\ (aPc = "done" /\ aSignal # NoPairSignal) =>
       aSignal.quality_rating \in {"MEDIUM", "HIGH", "STRONG"}
  /\ \A i \in DOMAIN gSignals : gSignals[i].quality_rating \notin {"WEAK", "LOW"}

\* analyze_pair returned a signal rated MEDIUM
C16_Witness ==
  /\ aPc = "done"
  /\ aSignal.signal_type \in {"BUY", "SELL"}
  /\ aSignal.quality_rating = "MEDIUM"

\* the order of the SignalStrength classes, weakest first
StrengthRank(strength) ==
  CASE strength = "WEAK" -> 0
    [] strength = "LOW" -> 1
    [] strength = "MEDIUM" -> 2
    [] strength = "HIGH" -> 3
    [] strength = "STRONG" -> 4

\* C21: _calculate_strength returns the class whose lower bound (40, 60, 75,
\* 90 per cent, each bound included) is the highest one the percentage
\* score / max_score * 100 reaches, WEAK below 40 per cent; and for a fixed
\* max_score no lower score gets a higher class.
C21_StrengthThresholds ==
  kPc = "returned" =>
    /\ kMax > 0 =>
         StrengthRank(kStrength) =
           Cardinality({t \in {40, 60, 75, 90} : kScore * 100 >= t * kMax})
    /\ \A s \in 0..kScore :
         StrengthRank(CalculateStrength(s, kMax)) <= StrengthRank(kStrength)

\* a percentage of exactly 60 was classified MEDIUM
C21_Witness ==
  /\ kPc = "returned"
  /\ kMax > 0
  /\ kScore * 100 = 60 * kMax
  /\ kStrength = "MEDIUM"

\* the hours the clock showed when a run of rate_signal read it
RunHours(report) ==
  {report.timestamp[1]}
    \cup {f.details : f \in {g \in report.factors : g.name = "market_hours"}}

\* two runs that read the clock within one and the same hour
SameHour(r1, r2) == Cardinality(RunHours(r1) \cup RunHours(r2)) = 1

\* the report without its 'timestamp'
Unstamped(report) == [report EXCEPT !.timestamp = <<0, 0>>]

RemovedThisTick ==
  {pCopy[i].symbol : i \in {j \in 1..Len(pCopy) : pCopy[j].obj \in closedObjs}}

\* the tick of start_monitoring is suspended in one of the awaits of a closure
TickSuspended == pPc \in {"close_db", "notify"}

\* an append to active_signals
Appended == Len(active_signals') = Len(active_signals) + 1

\* C23: while a tick of start_monitoring is under way, add_signal appends no
\* signal for a symbol whose signal that tick has closed and removed.
C23_NotReaddedWithinTick ==
  [][(TickSuspended /\ Appended) =>
       active_signals'[Len(active_signals')].symbol \notin RemovedThisTick]_vars

\* the step in which close_signal_in_db raises and the tick ends
ClosureRaises == pPc = "close_db" /\ pPc' = "sleep"

\* the step in which the next tick takes its copy of the list
TickBegins == pPc = "fetching" /\ pPc' = "loop"

CycleFails == CycleRaises \/ AddSaveRaises \/ BroadcastRaises

\* C25: an exception raised in a cycle of MarketWorker.start takes the loop
\* to its cooldown, and the loop is at the start of a cycle again and again:
\* no failed cycle ends it.
C25_LoopSurvivesFailedCycle ==
  /\ [][CycleFails => wPc' = "cooldown"]_vars
  /\ []<>(wPc = "idle")

\* the loop is back at the start of a cycle after a cycle that raised
C25_Witness ==
  /\ wPc = "idle"
  /\ nCand > 0
  /\ active_signals # <<>>

\* the main loop is outside broadcast_signal
BroadcastLeft == wPc \in {"idle", "cooldown"}

\* the recipients whose send or whose risk check has raised
FailedRecipients ==
  {u \in DOMAIN users :
     \/ uPc[u] = "raised"
     \/ uPc[u] = "done" /\ uCheck[u].phase = "allowed"
          /\ wSig.obj \notin delivered[u]}

\* C26: a send or a risk check that raises for one recipient leaves the
\* tracker's list as it is, and broadcast_signal is not left before the
\* send_to_one_user of every premium user of every batch has been started.
C26_FailureIsLocal ==
  /\ FailedRecipients # {} => ObjsOf(active_signals) = {wSig.obj}
  /\ BroadcastLeft => Queued = {}

\* C27: once the main loop has dealt with a signal (add_signal and
\* broadcast_signal have returned), the signal is in active_signals only if
\* it was delivered to at least one recipient.
C27_TrackedOnlyIfAccepted ==
  wPc = "idle" =>
    \A i \in 1..Len(active_signals) :
      \E u \in DOMAIN users : active_signals[i].obj \in delivered[u]

\* the results that end a signal
TerminalResults == {"TP1", "TP2", "TP3", "SL"}

\* close_signal_in_db selects OPEN rows only: a row of signals_history that
\* is not OPEN keeps its status, exit price and profit
ClosedRowsKept ==
  \A i \in 1..Len(history) :
    history[i].status # "OPEN" =>
      i <= Len(history') /\ history'[i] = history[i]

\* update_signal_result leaves a row with a terminal result as it is
TerminalStatisticKept ==
  stat.result \in TerminalResults =>
    /\ stat'.result = stat.result
    /\ stat'.closed_at = stat.closed_at
    /\ stat'.profit_loss_percent = stat.profit_loss_percent

C28_ClosedRowsAbsorbing == [][ClosedRowsKept]_vars


\* the identities the dicts of a run can have: one for each loaded row and
\* two for each signal of the analysis cycles (the dict, and the dict the
\* loader builds from its row)
TrackedObjs == 1 .. (MaxInitRows + 2 * MaxTrackerCandidates)

\* the signal with identity o is in the open set
Tracked(o) == o \in ObjsOf(active_signals)

\* the polling loop is about to close a signal (a target or a stop was hit)
ClosureBegun == pPc \in {"close_db", "notify"}

\* C29: under fair scheduling of the polling loop, every signal added to the
\* open set is eventually closed (target hit, stop hit or expiry), also when
\* the observed price stays strictly between stop and target forever.
C29_EveryTrackedSignalResolves ==
  \A o \in TrackedObjs : Tracked(o) ~> ~Tracked(o)

\* C29 for the behaviours in which no price ever meets a level
C29_ResolvesWithoutHit ==
  C29_EveryTrackedSignalResolves \/ <>ClosureBegun


\* update_daily_risk of recipient u commits in this step
UpdateCommits(u) == uPc[u] = "update_commit" /\ uPc'[u] = "done"

\* C30: updates of one recipient's risk state are serialised: when
\* update_daily_risk runs concurrently with the reset sweep (or the lazy
\* reset) on the same recipient, the final daily_risk_used is the result of
\* some serial order.  The sweep and the lazy reset write 0 or nothing, so
\* every serial order has update_daily_risk add the risk amount to the value
\* stored when it commits: neither the reset nor the added risk is lost.
C30_RiskUpdatesSerialised ==
  [][\A u \in DOMAIN users :
       UpdateCommits(u) =>
         users'[u].daily_risk_used =
           users[u].daily_risk_used + RiskAmount(wSig, users[u])]_vars


\* update_daily_risk of recipient u reads the row and adds in this step
UpdateAdds(u) == uPc[u] = "update_get" /\ uPc'[u] = "update_commit"

\* C31: the amount added to a recipient's daily_risk_used after a successful
\* delivery equals the signal risk percentage that check_user_limits tested
\* against the daily limit for that recipient and signal.
C31_ChargeIsAdmittedRisk ==
  [][\A u \in DOMAIN users :
       UpdateAdds(u) /\ wSig.obj \in delivered[u] =>
         uSnap'[u].row.daily_risk_used =
           users[u].daily_risk_used + uCheck[u].risk]_vars


\* the step in which a tick of start_monitoring ends (await asyncio.sleep(20))
TickEnds == pPc \in {"loop", "close_db", "notify"} /\ pPc' = "sleep"

\* C32: on every poll tick every open signal is compared with its price: a
\* failure while one signal is processed (missing target, missing ticker,
\* failed persistence, failed notification) does not keep the signals after
\* it in the tick's copy of the list from being checked in that tick.
C32_EverySignalCheckedEachTick ==
  [][TickEnds => pIdx >= Len(pCopy)]_vars


\* the rows of signals_history whose closure is persisted
ClosedRowIds(h) == {i \in 1..Len(h) : h[i].status # "OPEN"}

\* C33: for each closed signal the closure is persisted and the closure
\* notification is fanned out at most once, also when a step of the closing
\* sequence fails and the signal is processed again on a later tick: a
\* persisted closure stays as it is, and no more fan-outs have been performed
\* (one for each dict removed after its notification) than closures persisted.
C33_ClosureAtMostOnce ==
  Cardinality(closedObjs) <= Cardinality(ClosedRowIds(history))


\* the signal the worker is broadcasting was suppressed by add_signal: it
\* was never appended to active_signals
SuppressedInBroadcast ==
  /\ wPc \in {"broadcast", "gather"}
  /\ wSig.obj \notin ObjsOf(active_signals) \cup closedObjs

\* C34: a candidate whose symbol already has an open signal is suppressed
\* entirely: it is not tracked a second time, it is delivered to no recipient
\* and no recipient's daily_risk_used grows on its account.
C34_SuppressedNotBroadcast ==
  [][SuppressedInBroadcast =>
       /\ delivered' = delivered
       /\ \A u \in DOMAIN users :
            users'[u].daily_risk_used <= users[u].daily_risk_used]_vars


\* C35: every signal examined in a poll tick has a price in the ticker batch
\* fetched for that tick, also when add_signal (or the loader) appends a new
\* symbol while the fetch_tickers call of the tick is in flight.
C35_EveryExaminedSignalHasPrice ==
  pPc = "loop" =>
    \A i \in 1..Len(pCopy) : pCopy[i].symbol \in DOMAIN pTickers


\* the hours of the day at which rate_signal lets the generator's candidate
\* through; of all that rate_signal reads, only the hour varies for the dict
\* get_data_and_analyze passes
EmittingHours == {h \in Hours : ~Filtered(GeneratorRating(h))}

\* get_data_and_analyze built a candidate: the symbol passed the volume, the
\* candle-count and the minimum-score gates
GatesPassed == gCand # NoCandidate

\* C36: the pipeline can emit a signal: for a symbol that passes the volume,
\* candle-count and minimum-score gates there is an execution (an hour of the
\* day) in which rate_signal classifies MEDIUM or better and
\* get_data_and_analyze returns the signal.
C36_PipelineCanEmit == GatesPassed => EmittingHours # {}

\* run_analysis_cycle has appended no signal to its result
C36_NoSignalReturned == gSignals = <<>>


\* the score bands the comments of SignalStrength give for each class
DocumentedBand(score) ==
  IF score <= 3 THEN "WEAK"
  ELSE IF score <= 6 THEN "LOW"
  ELSE IF score <= 8 THEN "MEDIUM"
  ELSE IF score <= 10 THEN "HIGH"
  ELSE "STRONG"

\* C37: with the maximum of 12 points, _calculate_strength gives the classes
\* of the bands documented on SignalStrength: 0-3 WEAK, 4-6 LOW, 7-8 MEDIUM,
\* 9-10 HIGH, 11-12 STRONG.
C37_DocumentedBands ==
  (kPc = "returned" /\ kMax = DocumentedMax /\ kScore <= DocumentedMax) =>
    kStrength = DocumentedBand(kScore)


RECURSIVE ScoreSum(_)
\* the sum of the scores of a set of factor entries
ScoreSum(S) ==
  IF S = {} THEN 0
  ELSE LET f == CHOOSE g \in S : TRUE IN f.score + ScoreSum(S \ {f})

\* the factors whose functions are stubs
StubFactors == {"divergence", "support_resistance", "news"}

\* the reports rate_signal returned for a non-empty signal_data
RatedReports == {qReports[i] : i \in {j \in 1..Len(qReports) : qData # EmptySignalData}}

\* what every report has whatever its maximum: each factor score within
\* 0..max, the stubs at 0, total_score the sum of the factor scores, and
\* never STRONG
WellFormedReport(r) ==
  /\ \A f \in r.factors : 0 <= f.score /\ f.score <= f.max
  /\ \A f \in r.factors : f.name \in StubFactors => f.score = 0
  /\ r.total_score = ScoreSum(r.factors)
  /\ r.strength # "STRONG"

LevelsOnCorrectSides(row) ==
  IF row.side = "buy"
  THEN row.sl < row.entry_price /\ row.entry_price < row.tp1
  ELSE row.tp1 < row.entry_price /\ row.entry_price < row.sl

\* the step in which close_signal_in_db returns to the tick
ClosureReturns == pPc = "close_db" /\ pPc' = "notify"

\* C39: the profit percentage close_signal_in_db stores is direction-aware:
\* for a row with stop and target on the correct sides of the entry a TP
\* closure stores profit_pct > 0 and an SL closure profit_pct < 0, for buy
\* ((exit - entry) / entry * 100) and for sell ((entry - exit) / entry * 100),
\* the exit being the price observed in the closing tick.
C39_SignedProfit ==
  [][ClosureReturns =>
       \A i \in 1..Len(history) :
         (history[i].status = "OPEN" /\ history'[i].status # "OPEN"
            /\ LevelsOnCorrectSides(history[i])) =>
           /\ history'[i].exit_price = pPrice
           /\ history'[i].status = pOutcome
           /\ history'[i].profit_pct =
                (IF history[i].side = "buy" THEN 1 ELSE -1)
                  * (((pPrice - history[i].entry_price) * 10000)
                       \div history[i].entry_price)
           /\ history'[i].status = "TP" => history'[i].profit_pct > 0
           /\ history'[i].status = "SL" => history'[i].profit_pct < 0]_vars

====
